---- MODULE Spec2Model ----
(***************************************************************************)
(* A model of glypy's condensed GlycoCT parser (glypy/io/glycoct.py): the  *)
(* section state machine of GlycoCT.parse, the deferred linkage list, the  *)
(* repeat expansion of RepeatRecord.expand_inner, the finishing pass       *)
(* GlycoCT.postprocess, the iterator protocol (__iter__/next) and the      *)
(* module-level helper loads; and of EnzymeGraph (glypy/enzyme/graph.py)   *)
(* with a caller that builds a graph, copies it and calls its methods      *)
(* (specification EnzymeSpec); and of WURCSParser.parse                    *)
(* (glypy/io/wurcs/parser.py) on the node and connectivity sections of a   *)
(* line (specification WurcsSpec).                                         *)
(*                                                                         *)
(* Source indices ("1", "2", ...) are strings in the code; the model uses  *)
(* the integers 1..9, for which the string order used by sorted() and the  *)
(* integer order agree.  Every line of the stream holds one token, as in   *)
(* the documents the format describes.                                     *)
(***************************************************************************)
EXTENDS Integers, Sequences, FiniteSets, TLC

\* ------------------------------------------------------------------ bounds
\* documents concatenated in one stream
MaxDocs == 2
\* residues in one RES section
MaxRes == 2
\* largest multiplicity bound of a repeat header (-1 = unknown)
MaxMult == 4
\* values drawn for uuid4().int in undecorate_tree: 0..MaxUuid
MaxUuid == 1
\* the StopIterations a caller that keeps calling next() waits for
MaxStops == 2
\* enzymes a caller adds to the edges of an EnzymeGraph
MaxEdges == 2
\* nodes declared in the node section of a WURCS line
MaxNodes == 3
\* link entries in the connectivity section of a WURCS line
MaxLinks == 2

\* ------------------------------------------------------------- vocabulary
START == "!START"
RES == "RES"
LIN == "LIN"
REP == "REP"
ALT == "ALT"
UND == "UND"

\* python's None as an object reference; a reference to a node object (a
\* Monosaccharide or Substituent) and to a RepeatRecord object
None == [t |-> "none", r |-> 0]
NodeRef(n) == [t |-> "node", r |-> n]
RepRef(r) == [t |-> "rep", r |-> r]

\* ------------------------------------------------------------------ tokens
\* A token is one whitespace/semicolon separated word of the stream, already
\* cut by _read.  k is the shape the regular expressions of parse recognise.
Tok(k) == [k |-> k, ix |-> 0, rep |-> 0, id |-> 0, p |-> 0, c |-> 0, pa |-> "o", ca |-> "d", pp |-> <<>>, cp |-> <<>>, lo |-> 0, hi |-> 0, anomer |-> "x", ring |-> <<<<"x">>, <<"x">>>>]
\* "<ix>b:<anomer>-...-<ring start>:<ring end>" a residue line
ResTok(ix) == [Tok("b") EXCEPT !.ix = ix, !.anomer = "b", !.ring = <<<<"1">>, <<"5">>>>]
\* "<ix>s:<name>" a substituent line
SubTok(ix) == [Tok("s") EXCEPT !.ix = ix]
\* "<ix>r:r<rep>" a repeat stub
StubTok(ix, rep) == [Tok("r") EXCEPT !.ix = ix, !.rep = rep]
\* "<id>:<p>o(<pp>+<cp>)<c>d" a linkage line; pp, cp are the raw position texts
LinkTok(id, p, c, pp, cp) == [Tok("l") EXCEPT !.id = id, !.p = p, !.c = c, !.pp = pp, !.cp = cp]
\* "REP<rep>:<p>o(<pp>+<cp>)<c>d=<lo>-<hi>" a repeat header
HeadTok(rep, p, c, pp, cp, lo, hi) == [Tok("h") EXCEPT !.rep = rep, !.p = p, !.c = c, !.pp = pp, !.cp = cp, !.lo = lo, !.hi = hi]
\* a word no pattern of parse matches
BadTok == Tok("?")

\* the usual single positions "4" and "1"
P4 == <<"4">>
P1 == <<"1">>
\* the unknown position "-1" and the two candidates "2|4"
PUnknown == <<"-", "1">>
P2or4 == <<"2", "|", "4">>

\* ------------------------------------------------------ the input streams
Mults == (-1) .. MaxMult

\* RES, [a substituent line], n residue lines, LIN, the chain of links
PlainDoc(n, s) ==
  LET o == IF s THEN 1 ELSE 0
  IN  <<Tok(RES)>>
      \o (IF s THEN <<SubTok(1)>> ELSE <<>>)
      \o [i \in 1..n |-> ResTok(o + i)]
      \o <<Tok(LIN)>>
      \o (IF s THEN <<LinkTok(1, 2, 1, P4, P1)>> ELSE <<>>)
      \o [i \in 1..(n - 1) |-> LinkTok(o + i, o + i, o + i + 1, P4, P1)]

\* a residue, a repeat stub and a residue; the repeat unit has c residues
MiddleDoc(c, lo, hi) ==
  <<Tok(RES), ResTok(1), StubTok(2, 1), ResTok(3), Tok(LIN),
    LinkTok(1, 1, 2, P4, P1), LinkTok(2, 2, 3, P4, P1),
    Tok(REP), HeadTok(1, 3 + c, 4, P4, P1, lo, hi), Tok(RES)>>
  \o [i \in 1..c |-> ResTok(3 + i)]
  \o <<Tok(LIN)>>
  \o [i \in 1..(c - 1) |-> LinkTok(2 + i, 3 + i, 4 + i, P4, P1)]

\* the document opens with the repeat stub
LeadingDoc(lo, hi) ==
  <<Tok(RES), StubTok(1, 1), ResTok(2), Tok(LIN), LinkTok(1, 1, 2, P4, P1),
    Tok(REP), HeadTok(1, 3, 3, P4, P1, lo, hi), Tok(RES), ResTok(3), Tok(LIN)>>

\* two repeat stubs linked to each other
TwinDoc(lo, hi) ==
  <<Tok(RES), ResTok(1), StubTok(2, 1), StubTok(3, 2), Tok(LIN),
    LinkTok(1, 1, 2, P4, P1), LinkTok(2, 2, 3, P4, P1),
    Tok(REP), HeadTok(1, 4, 4, P4, P1, lo, hi), Tok(RES), ResTok(4), Tok(LIN),
    HeadTok(2, 5, 5, P4, P1, lo, hi), Tok(RES), ResTok(5), Tok(LIN)>>

\* a repeat stub that no REP section ever fills
StubOnlyDoc ==
  <<Tok(RES), ResTok(1), StubTok(2, 1), Tok(LIN), LinkTok(1, 1, 2, P4, P1)>>

\* a repeat residue declared under the index of the stub itself, linked to a
\* second stub: the deferred parent lookup then finds the stub
ClashDoc ==
  <<Tok(RES), ResTok(1), StubTok(2, 1), StubTok(3, 2), Tok(LIN),
    LinkTok(1, 1, 2, P4, P1),
    Tok(REP), HeadTok(2, 5, 5, P4, P1, -1, -1), Tok(RES), ResTok(5), Tok(LIN),
    HeadTok(1, 2, 2, P4, P1, -1, -1), Tok(RES), ResTok(2), Tok(LIN),
    LinkTok(2, 2, 3, P4, P1)>>

\* a second stub of repeat 1 declared inside the REP section of repeat 1 and
\* linked to a residue of the unit: the first record, which holds that
\* residue, is no longer registered when the linkage is replayed
OrphanDoc(outgoing) ==
  <<Tok(RES), ResTok(1), StubTok(2, 1), Tok(LIN),
    Tok(REP), HeadTok(1, 3, 3, P4, P1, 1, 1), Tok(RES), ResTok(3), StubTok(4, 1), Tok(LIN),
    IF outgoing THEN LinkTok(1, 4, 3, P4, P1) ELSE LinkTok(1, 3, 4, P4, P1),
    HeadTok(1, 5, 5, P4, P1, 1, 1), Tok(RES), ResTok(5), Tok(LIN)>>

\* the first residue of the document is declared inside the repeat section
StubRootDoc(lo, hi) ==
  <<Tok(RES), StubTok(1, 1), Tok(REP), HeadTok(1, 2, 2, P4, P1, lo, hi),
    Tok(RES), ResTok(2), Tok(LIN)>>

\* two residues joined by a linkage line with the parent position text pp
PositionsDoc(pp) == <<Tok(RES), ResTok(1), ResTok(2), Tok(LIN), LinkTok(1, 1, 2, pp, P1)>>

\* RES, 1b:o-dman-HEX-0:0, LIN
MinimalDoc ==
  <<Tok(RES), [ResTok(1) EXCEPT !.anomer = "o", !.ring = <<<<"0">>, <<"0">>>>], Tok(LIN)>>

\* a linkage line naming an index nothing declares
DanglingDoc ==
  <<Tok(RES), ResTok(1), Tok(LIN), LinkTok(1, 1, 7, P4, P1)>>

\* the documents that streams of several documents are made of
ConcatDocs == {PlainDoc(1, FALSE), PlainDoc(MaxRes, TRUE), MiddleDoc(1, -1, -1), StubOnlyDoc}

\* the streams of at most k documents of D
RECURSIVE Concats(_, _)
Concats(D, k) ==
  IF k = 0 THEN {<<>>}
  ELSE {<<>>} \cup {d \o s : d \in D, s \in Concats(D, k - 1)}

SingleDocs ==
  {PlainDoc(n, s) : n \in 1..MaxRes, s \in BOOLEAN}
  \cup {MiddleDoc(c, m[1], m[2]) : c \in 1..MaxRes, m \in Mults \X Mults}
  \cup {LeadingDoc(1, 2), TwinDoc(-1, -1), TwinDoc(2, 2), TwinDoc(2, 1), StubRootDoc(-1, 2), ClashDoc, DanglingDoc, MinimalDoc,
      OrphanDoc(FALSE), OrphanDoc(TRUE), PositionsDoc(PUnknown), PositionsDoc(P2or4)}

\* the streams on which one stray token is inserted, or which are cut short
CoreDocs == {PlainDoc(2, TRUE), MiddleDoc(1, 1, 2), TwinDoc(-1, -1)}
StrayToks ==
  {Tok(ALT), Tok(UND), Tok(LIN), BadTok,
   ResTok(9), SubTok(9), StubTok(9, 9), LinkTok(9, 1, 1, P4, P1),
   HeadTok(1, 4, 4, P4, P1, 1, 2)}
Insert(s, i, t) == SubSeq(s, 1, i) \o <<t>> \o SubSeq(s, i + 1, Len(s))

Streams ==
  (Concats(ConcatDocs, MaxDocs) \ {<<>>})
  \cup SingleDocs
  \cup UNION {{Insert(s, i, t) : i \in 0..Len(s), t \in StrayToks} : s \in CoreDocs}
  \cup UNION {{SubSeq(s, 1, i) : i \in 1..Len(s)} : s \in CoreDocs}


\* ----------------------------------------------------------------- helpers
\* a python dict: a function on the set of its keys
EmptyDict == [x \in {} |-> 0]
Put(f, k, v) == [x \in (DOMAIN f) \cup {k} |-> IF x = k THEN v ELSE f[x]]
MinOf(S) == CHOOSE x \in S : \A y \in S : x <= y

RECURSIVE SortedSeq(_)
SortedSeq(S) == IF S = {} THEN <<>> ELSE <<MinOf(S)>> \o SortedSeq(S \ {MinOf(S)})

\* try_int: int(v), or None when v is no number
NoInt == [some |-> FALSE, v |-> 0]
IsDigit(ch) == ch \in {"0", "1", "2", "3", "4", "5", "6", "7", "8", "9"}

\* int() of one decimal digit
DigitVal(ch) ==
  CASE ch = "0" -> 0 [] ch = "1" -> 1 [] ch = "2" -> 2 [] ch = "3" -> 3
    [] ch = "4" -> 4 [] ch = "5" -> 5 [] ch = "6" -> 6 [] ch = "7" -> 7
    [] ch = "8" -> 8 [] ch = "9" -> 9

RECURSIVE ParseNat(_, _)
ParseNat(txt, acc) ==
  IF txt = <<>> THEN acc ELSE ParseNat(Tail(txt), 10 * acc + DigitVal(Head(txt)))

\* int(text) for an optionally signed decimal text
ParseInt(txt) ==
  IF Head(txt) = "-" THEN 0 - ParseNat(Tail(txt), 0) ELSE ParseNat(txt, 0)

\* a try_int that gives up on every text
try_int_gives_up(txt) == NoInt

try_int(txt) ==
  IF txt # <<>> /\ \A i \in 1..Len(txt) : IsDigit(txt[i])
    THEN [some |-> TRUE, v |-> ParseNat(txt, 0)]
    ELSE NoInt

\* anomer_map: the anomer an anomer letter stands for
anomer_map(letter) ==
  CASE letter = "a" -> "alpha" [] letter = "b" -> "beta"
    [] letter = "o" -> "uncyclized" [] OTHER -> "unknown"

\* text.split("|")
RECURSIVE SplitBar(_, _)
SplitBar(txt, cur) ==
  IF txt = <<>> THEN <<cur>>
  ELSE IF Head(txt) = "|" THEN <<cur>> \o SplitBar(Tail(txt), <<>>)
  ELSE SplitBar(Tail(txt), Append(cur, Head(txt)))

\* A position argument of form_link is either the list of integers parse_link
\* makes, or the raw text a repeat header keeps; len() counts items or
\* characters.
PosList(txt) == LET parts == SplitBar(txt, <<>>) IN [list |-> [i \in 1..Len(parts) |-> ParseInt(parts[i])], str |-> <<>>]
PosText(txt) == [list |-> <<>>, str |-> txt]
PosLen(pos) == Len(pos.list) + Len(pos.str)
PosFirst(pos) == IF pos.list # <<>> THEN [list |-> <<pos.list[1]>>, str |-> <<>>] ELSE [list |-> <<>>, str |-> <<pos.str[1]>>]

\* link_replacement_composition_map: the composition an atom letter loses
LossOf(letter) == IF letter = "d" THEN "OH" ELSE "H"

\* an exception leaves the handler at once
Raise(S, e) == [S EXCEPT !.err = e]
Failed(S) == S.err # "none"
Ev(S, e, a, b) == [S EXCEPT !.log = Append(@, [e |-> e, g |-> S.gen, a |-> a, b |-> b])]

\* ------------------------------------------------------ nodes and bonds
\* S is the parser object together with the objects it reaches:
\*   graph, state, current_repeat, in_repeat, repeats, postponed, root
\*                         the attributes of GlycoCT
\*   records               the RepeatRecord objects, by creation order
\*   nodes                 the Monosaccharide/Substituent objects: kind "b" or
\*                         "s", id (a decorated id (d, i) is <<d, i>>), the
\*                         input line that declared it, the node it clones
\*   bonds                 the Link/AmbiguousLink objects, by creation order
\*   log, gen, err         history of the finishing steps, the running
\*                         generator, the exception being raised

\* the nodes a traversal of Glycan(n) visits: the residues connected to n
RECURSIVE Component(_, _)
Component(S, X) ==
  LET E == {i \in 1..Len(S.bonds) :
              /\ S.bonds[i].parent.t = "node" /\ S.bonds[i].child.t = "node"
              /\ S.nodes[S.bonds[i].parent.r].kind = "b"
              /\ S.nodes[S.bonds[i].child.r].kind = "b"}
      Y == X \cup {S.bonds[i].child.r : i \in {j \in E : S.bonds[j].parent.r \in X}}
             \cup {S.bonds[i].parent.r : i \in {j \in E : S.bonds[j].child.r \in X}}
  IN  IF Y = X THEN X ELSE Component(S, Y)

\* the substituents carried by the residues X
SubstituentsOf(S, X) ==
  {S.bonds[i].child.r : i \in {j \in 1..Len(S.bonds) :
      /\ S.bonds[j].parent.t = "node" /\ S.bonds[j].child.t = "node"
      /\ S.bonds[j].parent.r \in X
      /\ S.nodes[S.bonds[j].child.r].kind = "s"}}

\* Glycan.get(id): the node of the glycan rooted at g whose id is id
GlycanGet(S, g, id) ==
  LET hits == {n \in Component(S, {g}) : S.nodes[n].id = id}
  IN  IF hits = {} THEN [t |-> "IndexError", r |-> 0] ELSE NodeRef(MinOf(hits))

\* Glycan.clone(): a copy of every node of the glycan rooted at g (its
\* residues and their substituents, listed in order) and of the bonds among
\* them (old); the copies keep the ids
clone_nodes(S, g, order, old) ==
  LET base == Len(S.nodes)
      new(n) == base + (CHOOSE i \in 1..Len(order) : order[i] = n)
  IN  [S |-> [S EXCEPT
                !.nodes = @ \o [i \in 1..Len(order) |-> [S.nodes[order[i]] EXCEPT !.of = order[i]]],
                !.bonds = @ \o [i \in 1..Len(old) |->
                                  [old[i] EXCEPT !.parent = NodeRef(new(old[i].parent.r)),
                                                 !.child = NodeRef(new(old[i].child.r)),
                                                 !.via = "clone"]]],
       root |-> new(g)]

clone_of(S, g, all) ==
  clone_nodes(S, g, SortedSeq(all),
              SelectSeq(S.bonds, LAMBDA b : /\ b.parent.t = "node" /\ b.child.t = "node"
                                            /\ b.parent.r \in all /\ b.child.r \in all))

with_substituents(S, comp) == comp \cup SubstituentsOf(S, comp)

CloneGlycan(S, g) == clone_of(S, g, with_substituents(S, Component(S, {g})))

\* decorate_tree: every node id becomes (decorate_value, id); copy keeps the
\* decorate_value once the id is overwritten
decorate_tree(S, g, d) ==
  LET comp == Component(S, {g})
  IN  [S EXCEPT !.nodes = [n \in 1..Len(S.nodes) |->
                             IF n \in comp THEN [S.nodes[n] EXCEPT !.id = <<d>> \o @, !.copy = d]
                             ELSE S.nodes[n]]]

\* form_link: parent.node_type is read first; then one Link or AmbiguousLink
\* is instantiated on the two objects handed in
form_link(S, parent, child, pp, cp, ploss, closs, id, via, line) ==
  IF parent.t # "node" THEN Raise(S, "AttributeError")
  ELSE LET amb == PosLen(pp) > 1 \/ PosLen(cp) > 1
           bond == [parent |-> parent, child |-> child, amb |-> amb,
                    pp |-> IF amb THEN pp ELSE PosFirst(pp),
                    cp |-> IF amb THEN cp ELSE PosFirst(cp),
                    ploss |-> ploss, closs |-> closs, id |-> IF amb THEN id ELSE 0,
                    via |-> via, line |-> line, gen |-> S.gen]
           S1 == [S EXCEPT !.bonds = Append(@, bond)]
       IN  IF child.t # "node" THEN Raise(S1, "AttributeError") ELSE S1

\* ------------------------------------------------------------ RepeatRecord
NoLinkage == [set |-> FALSE, p |-> 0, c |-> 0, pa |-> "o", ca |-> "d", pp |-> <<>>, cp |-> <<>>]
NoGraph == [set |-> FALSE, g |-> EmptyDict]

\* RepeatRecord.__init__; graph holds the capture graph (source index -> node)
\* until expand_inner replaces it by the clones (1..n -> root of the clone)
NewRecord(graph_index, repeat_index) ==
  [graph_index |-> graph_index, repeat_index |-> repeat_index,
   internal_linkage |-> NoLinkage, external_linkage |-> NoLinkage,
   multitude |-> <<-1, -1>>, graph |-> EmptyDict, original_graph |-> NoGraph]

\* RepeatRecord.__contains__
record_contains(rec, k) ==
  IF rec.original_graph.set THEN k \in DOMAIN rec.original_graph.g ELSE k \in DOMAIN rec.graph

\* RepeatRecord.is_exact
is_exact(rec) ==
  IF rec.multitude[1] = -1 \/ rec.multitude[2] = -1 THEN "unknown"
  ELSE IF rec.multitude[1] = rec.multitude[2] THEN "exact"
  ELSE "ranging"

\* an optional argument n: not given (None), or an integer
NoCount == [given |-> FALSE, n |-> 0]
Count(n) == [given |-> TRUE, n |-> n]

\* a copy count that prefers the lower bound
copy_count_lower_first(rec, cnt) ==
  IF cnt.given THEN cnt.n
  ELSE IF rec.multitude[1] # -1 THEN rec.multitude[1]
  ELSE IF rec.multitude[2] # -1 THEN rec.multitude[2]
  ELSE 1

\* expand_inner, the copy count
copy_count(rec, cnt) ==
  IF cnt.given THEN cnt.n
  ELSE IF rec.multitude[2] # -1 THEN rec.multitude[2]
  ELSE IF rec.multitude[1] # -1 THEN rec.multitude[1]
  ELSE 1

\* a range check that forgets the lower bound
count_in_range_upper_only(rec, n) ==
  is_exact(rec) = "unknown" \/ n <= rec.multitude[2]

\* expand_inner, the range check
count_in_range(rec, n) ==
  is_exact(rec) = "unknown" \/ (rec.multitude[1] <= n /\ n <= rec.multitude[2])

\* expand_inner, the loop: clone i is made, decorated with i, and the pair of
\* nodes to bond with clone i-1 is looked up.  roots are the clones so far,
\* ops the bonds to form.
RECURSIVE expand_loop(_, _, _, _, _, _, _)
RECURSIVE expand_pair(_, _, _, _, _, _, _, _)
RECURSIVE expand_clone(_, _, _, _, _, _, _)
expand_pair(S1, croot, src, link, i, n, roots, ops) ==
  LET parent_node == GlycanGet(S1, roots[i - 1], <<i - 1, link.p>>)
      child_node == GlycanGet(S1, croot, <<i, link.c>>)
  IN  IF parent_node.t # "node" THEN [S |-> Raise(S1, parent_node.t), roots |-> roots, ops |-> ops]
      ELSE IF child_node.t # "node" THEN [S |-> Raise(S1, child_node.t), roots |-> roots, ops |-> ops]
      ELSE expand_loop(S1, src, link, i + 1, n, Append(roots, croot),
                       Append(ops, <<parent_node, child_node>>))

expand_clone(c, src, link, i, n, roots, ops) ==
  expand_pair(decorate_tree(c.S, c.root, i), c.root, src, link, i, n, roots, ops)

expand_loop(S, src, link, i, n, roots, ops) ==
  IF i > n THEN [S |-> S, roots |-> roots, ops |-> ops]
  ELSE expand_clone(CloneGlycan(S, src), src, link, i, n, roots, ops)

\* expand_inner, the op_stack: the bonds between consecutive clones
RECURSIVE run_op_stack(_, _, _, _)
run_op_stack(S, link, ops, k) ==
  IF k > Len(ops) \/ Failed(S) THEN S
  ELSE run_op_stack(
         form_link(S, ops[k][1], ops[k][2], PosText(link.pp), PosText(link.cp),
                   LossOf(link.pa), LossOf(link.ca), 0, "chain", 0),
         link, ops, k + 1)

\* the branch of expand_inner taken when the record was expanded before:
\* every value of graph (by now a Glycan) is cloned
RECURSIVE reclone(_, _, _)
reclone_put(c, r, keys) ==
  reclone([c.S EXCEPT !.records[r].graph[Head(keys)] = c.root], r, Tail(keys))

reclone(S, r, keys) ==
  IF keys = <<>> THEN S
  ELSE reclone_put(CloneGlycan(S, S.records[r].graph[Head(keys)]), r, keys)

\* expand_inner, its end: self.graph = graph
expand_store(S3, r, roots) ==
  IF Failed(S3) THEN S3
  ELSE Ev([S3 EXCEPT !.records[r].graph = roots], "expand", r, Len(roots))

expand_chain(L, link, r) == expand_store(run_op_stack(L.S, link, L.ops, 1), r, L.roots)

\* expand_inner from the first clone on
expand_first(S2, croot, src, link, r, n) ==
  IF ~link.set THEN Raise(S2, "TypeError")
  ELSE expand_chain(expand_loop(S2, src, link, 2, n, <<croot>>, <<>>), link, r)

expand_decorate(c1, src, link, r, n) ==
  expand_first(decorate_tree(c1.S, c1.root, 1), c1.root, src, link, r, n)

\* RepeatRecord.expand_inner(n)
expand_inner(S, r, cnt) ==
  LET rec == S.records[r]
      n == copy_count(rec, cnt)
      sub_unit_indices == SortedSeq(DOMAIN rec.graph)
  IN  IF ~count_in_range(rec, n) THEN Raise(Ev(S, "expand_call", r, n), "ValueError")
      ELSE IF sub_unit_indices = <<>> THEN Raise(Ev(S, "expand_call", r, n), "IndexError")
      ELSE IF rec.original_graph.set
        \* Glycan(<a Glycan>).clone() of the line after is outside this
        \* file; it is taken to raise
        THEN Raise(reclone(Ev(S, "expand_call", r, n), r, sub_unit_indices), "TypeError")
      ELSE expand_decorate(
             CloneGlycan([Ev(S, "expand_call", r, n) EXCEPT
                            !.records[r].original_graph = [set |-> TRUE, g |-> rec.graph]],
                         rec.graph[sub_unit_indices[1]]),
             rec.graph[sub_unit_indices[1]], rec.internal_linkage, r, n)

\* RepeatRecord.get_node(id, direction): the node of the first clone ("in",
\* None) or of the last clone ("out") with the source index id
record_get_node(S, r, id, direction) ==
  LET rec == S.records[r]
      sub_unit_indices == SortedSeq(DOMAIN rec.graph)
  IN  IF sub_unit_indices = <<>> THEN [t |-> "IndexError", r |-> 0]
      ELSE IF direction = "out"
        THEN GlycanGet(S, rec.graph[sub_unit_indices[Len(sub_unit_indices)]], <<Len(sub_unit_indices), id>>)
        ELSE GlycanGet(S, rec.graph[sub_unit_indices[1]], <<1, id>>)

\* the closure deferred_retrieval(id, direction) builds, called at replay
\* time: the document graph first, then the registered repeats
deferred_retrieval(S, id, direction) ==
  IF id \in DOMAIN S.graph THEN S.graph[id]
  ELSE LET holders == {k \in DOMAIN S.repeats : record_contains(S.records[S.repeats[k]], id)}
       IN  IF holders = {} THEN None
           ELSE record_get_node(S, S.repeats[MinOf(holders)], id, direction)

\* the callable handed to handle_incoming_link / handle_outgoing_link: a
\* deferred_retrieval closure, or "lambda: parent"
Thunk(id) == [thunk |-> TRUE, id |-> id, ref |-> None]
Const(ref) == [thunk |-> FALSE, id |-> 0, ref |-> ref]
Call(S, f) == IF f.thunk THEN deferred_retrieval(S, f.id, "none") ELSE f.ref
IsError(ref) == ref.t \notin {"node", "rep", "none"}
\* parent() / child(): what a deferred_retrieval closure returned is noted
Called(S, f) ==
  IF f.thunk THEN Ev(S, "thunk", f.id, IF Call(S, f) = None THEN 0 ELSE 1) ELSE S

\* RepeatRecord.handle_incoming_link, once parent() and child are evaluated
incoming_link(S, rec, parent_node, child, pp, ploss, cp, closs, id, line) ==
  IF IsError(parent_node) THEN Raise(S, parent_node.t)
  ELSE IF ~rec.external_linkage.set THEN Raise(S, "TypeError")
  ELSE IF IsError(child) THEN Raise(S, child.t)
  ELSE form_link(S, parent_node, child, pp, cp, ploss,
                 IF ploss = "H" THEN "OH" ELSE closs, id, "replay", line)

\* RepeatRecord.handle_incoming_link
handle_incoming_link(S, r, parent, pp, ploss, cp, closs, id, line) ==
  LET rec == S.records[r]
      sub_unit_indices == SortedSeq(DOMAIN rec.graph)
  IN  IF sub_unit_indices = <<>> THEN Raise(S, "IndexError")
      ELSE incoming_link(Called(S, parent), rec, Call(S, parent),
                         GlycanGet(S, rec.graph[sub_unit_indices[1]], <<1, rec.external_linkage.c>>),
                         pp, ploss, cp, closs, id, line)

\* RepeatRecord.handle_outgoing_link, once child() and parent are evaluated
outgoing_link(S, rec, child_node, parent, pp, ploss, cp, closs, id, line) ==
  IF IsError(child_node) THEN Raise(S, child_node.t)
  ELSE IF ~rec.external_linkage.set THEN Raise(S, "TypeError")
  ELSE IF IsError(parent) THEN Raise(S, parent.t)
  ELSE IF child_node.t = "rep"
    THEN handle_incoming_link(S, child_node.r, Const(parent), pp, ploss, cp, closs, id, line)
    ELSE form_link(S, parent, child_node, pp, cp, ploss, closs, id, "replay", line)

\* a handle_outgoing_link that attaches from the first clone
handle_outgoing_link_first_clone(S, r, child, pp, ploss, cp, closs, id, line) ==
  LET rec == S.records[r]
      sub_unit_indices == SortedSeq(DOMAIN rec.graph)
  IN  IF sub_unit_indices = <<>> THEN Raise(S, "IndexError")
      ELSE outgoing_link(Called(S, child), rec, Call(S, child),
                         GlycanGet(S, rec.graph[sub_unit_indices[1]], <<1, rec.external_linkage.p>>),
                         pp, ploss, cp, closs, id, line)

\* RepeatRecord.handle_outgoing_link
handle_outgoing_link(S, r, child, pp, ploss, cp, closs, id, line) ==
  LET rec == S.records[r]
      sub_unit_indices == SortedSeq(DOMAIN rec.graph)
  IN  IF sub_unit_indices = <<>> THEN Raise(S, "IndexError")
      ELSE outgoing_link(Called(S, child), rec, Call(S, child),
                         GlycanGet(S, rec.graph[sub_unit_indices[Len(sub_unit_indices)]],
                                   <<Len(sub_unit_indices), rec.external_linkage.p>>),
                         pp, ploss, cp, closs, id, line)

\* RepeatRecord.__root__ through glypy.utils.root: the root of the first clone
record_root(S, r) ==
  IF 1 \in DOMAIN S.records[r].graph /\ S.records[r].original_graph.set
    THEN NodeRef(S.records[r].graph[1])
    ELSE [t |-> "KeyError", r |-> 0]

\* ----------------------------------------------------------------- GlycoCT
\* GlycoCT.get_node: inside a repeat the current repeat's graph is tried first
get_node(S, id) ==
  IF S.in_repeat
    THEN IF S.current_repeat.t # "rep" THEN [t |-> "AttributeError", r |-> 0]
         ELSE LET rec == S.records[S.current_repeat.r]
              IN  IF ~rec.original_graph.set /\ id \in DOMAIN rec.graph THEN NodeRef(rec.graph[id])
                  ELSE IF id \in DOMAIN S.graph THEN S.graph[id]
                  ELSE [t |-> "KeyError", r |-> 0]
    ELSE IF id \in DOMAIN S.graph THEN S.graph[id] ELSE [t |-> "KeyError", r |-> 0]

\* the object a residue or substituent line creates
NewNode(kind, id, line) ==
  [kind |-> kind, id |-> id, line |-> line, of |-> 0, copy |-> 0,
   anomer |-> "none", ring_start |-> NoInt, ring_end |-> NoInt]

\* Monosaccharide(**residue_dict) with residue.id = int(ix)
Residue(tok, line) ==
  [NewNode("b", <<tok.ix>>, line) EXCEPT
     !.anomer = anomer_map(tok.anomer),
     !.ring_start = try_int(tok.ring[1]),
     !.ring_end = try_int(tok.ring[2])]

\* GlycoCT.handle_residue_line
handle_residue_line(S, tok, line) ==
  IF S.in_repeat /\ S.current_repeat.t # "rep" THEN Raise(S, "AttributeError")
  ELSE LET n == Len(S.nodes) + 1
           S1 == [S EXCEPT !.nodes = Append(@, Residue(tok, line))]
           S2 == IF S.in_repeat
                   THEN [S1 EXCEPT !.records[S.current_repeat.r].graph = Put(@, tok.ix, n)]
                   ELSE [S1 EXCEPT !.graph = Put(@, tok.ix, NodeRef(n))]
       IN  IF S.root.t = "none"
             THEN [S2 EXCEPT !.root = IF S.in_repeat THEN S.current_repeat ELSE NodeRef(n)]
             ELSE S2

\* GlycoCT.handle_residue_substituent
handle_residue_substituent(S, tok, line) ==
  IF S.in_repeat /\ S.current_repeat.t # "rep" THEN Raise(S, "AttributeError")
  ELSE LET n == Len(S.nodes) + 1
           S1 == [S EXCEPT !.nodes = Append(@, NewNode("s", <<>>, line))]
       IN  IF S.in_repeat
             THEN [S1 EXCEPT !.records[S.current_repeat.r].graph = Put(@, tok.ix, n)]
             ELSE [S1 EXCEPT !.graph = Put(@, tok.ix, NodeRef(n))]

\* one entry of GlycoCT.postponed
PostOp(handler, r, f, pp, ploss, cp, closs, id, line) ==
  [handler |-> handler, rec |-> r, f |-> f, pp |-> pp, ploss |-> ploss,
   cp |-> cp, closs |-> closs, id |-> id, line |-> line]

\* a handle_linkage that defers only for a placeholder parent
link_or_postpone_eager(S, tok, line, parent, child, pp, cp) ==
  IF IsError(parent) THEN Raise(S, parent.t)
  ELSE IF IsError(child) THEN Raise(S, child.t)
  ELSE IF parent.t = "rep"
    THEN [S EXCEPT !.postponed = Append(@,
            PostOp("handle_outgoing_link", parent.r, Thunk(tok.c),
                   pp, LossOf(tok.pa), cp, LossOf(tok.ca), tok.id, line))]
  ELSE form_link(S, parent, child, pp, cp, LossOf(tok.pa), LossOf(tok.ca), tok.id, "line", line)

\* GlycoCT.handle_linkage once parse_link and the two get_node calls are done
link_or_postpone(S, tok, line, parent, child, pp, cp) ==
  IF IsError(parent) THEN Raise(S, parent.t)
  ELSE IF IsError(child) THEN Raise(S, child.t)
  ELSE IF parent.t = "rep"
    THEN [S EXCEPT !.postponed = Append(@,
            PostOp("handle_outgoing_link", parent.r, Thunk(tok.c),
                   pp, LossOf(tok.pa), cp, LossOf(tok.ca), tok.id, line))]
  ELSE IF child.t = "rep"
    THEN [S EXCEPT !.postponed = Append(@,
            PostOp("handle_incoming_link", child.r, Thunk(tok.p),
                   pp, LossOf(tok.pa), cp, LossOf(tok.ca), tok.id, line))]
  ELSE form_link(S, parent, child, pp, cp, LossOf(tok.pa), LossOf(tok.ca), tok.id, "line", line)

\* GlycoCT.handle_linkage, with parse_link
handle_linkage(S, tok, line) ==
  link_or_postpone(S, tok, line, get_node(S, tok.p), get_node(S, tok.c),
                   PosList(tok.pp), PosList(tok.cp))

\* GlycoCT.handle_repeat_stub
handle_repeat_stub(S, tok) ==
  LET r == Len(S.records) + 1
  IN  [S EXCEPT !.records = Append(@, NewRecord(tok.ix, tok.rep)),
                !.graph = Put(@, tok.ix, RepRef(r)),
                !.repeats = Put(@, tok.rep, r)]

\* a _reset that keeps the root of the document before
reset_keeps_root(S) == [S EXCEPT !.graph = EmptyDict, !.postponed = <<>>]

\* GlycoCT._reset
reset(S) == [S EXCEPT !.graph = EmptyDict, !.root = None, !.postponed = <<>>]

\* a first loop that stops after one repeat
expand_all_head_only(S, keys) ==
  IF keys = <<>> \/ Failed(S) THEN S
  ELSE expand_inner(S, S.repeats[Head(keys)], NoCount)

\* postprocess, first loop: every registered repeat is expanded
RECURSIVE expand_all(_, _)
expand_all(S, keys) ==
  IF keys = <<>> \/ Failed(S) THEN S
  ELSE expand_all(expand_inner(S, S.repeats[Head(keys)], NoCount), Tail(keys))

\* a second loop that walks the postponed list from its end
RECURSIVE replay_last_first(_, _)
replay_last_first(S, k) ==
  IF k > Len(S.postponed) \/ Failed(S) THEN S
  ELSE LET op == S.postponed[Len(S.postponed) + 1 - k]
           S0 == Ev(S, "replay", k, op.line)
       IN  replay_last_first(
             IF op.handler = "handle_outgoing_link"
               THEN handle_outgoing_link(S0, op.rec, op.f, op.pp, op.ploss, op.cp, op.closs, op.id, op.line)
               ELSE handle_incoming_link(S0, op.rec, op.f, op.pp, op.ploss, op.cp, op.closs, op.id, op.line),
             k + 1)

\* postprocess, second loop: postop[0](*postop[1:]) for every postponed entry
RECURSIVE replay(_, _)
replay(S, k) ==
  IF k > Len(S.postponed) \/ Failed(S) THEN S
  ELSE LET op == S.postponed[k]
           S0 == Ev(S, "replay", k, op.line)
       IN  replay(IF op.handler = "handle_outgoing_link"
                    THEN handle_outgoing_link(S0, op.rec, op.f, op.pp, op.ploss, op.cp, op.closs, op.id, op.line)
                    ELSE handle_incoming_link(S0, op.rec, op.f, op.pp, op.ploss, op.cp, op.closs, op.id, op.line),
                  k + 1)

\* glypy.utils.root of the provisional root
rootp(S, ref) ==
  IF ref.t = "node" THEN ref
  ELSE IF ref.t = "rep" THEN record_root(S, ref.r)
  ELSE [t |-> "TypeError", r |-> 0]

\* tree.reindex(): the identifiers assigned at finishing are the final ones
glycan_reindex(S, index) == S

\* the loop of undecorate_tree without its i += 1
reindexed_one_id(S, g, u, index) ==
  LET listed == {index[i] : i \in 1..Len(index)}
  IN  [S |-> glycan_reindex(
               [S EXCEPT !.nodes = [n \in 1..Len(S.nodes) |->
                  IF n \in listed THEN [S.nodes[n] EXCEPT !.id = <<u>>]
                  ELSE S.nodes[n]]], index),
       tree |-> [root |-> g, index |-> index, ids |-> [i \in 1..Len(index) |-> u]]]

\* undecorate_tree(Glycan(g)) with u = uuid4().int: the nodes of the index
\* get the ids u, u+1, ...
reindexed(S, g, u, index) ==
  LET at(n) == CHOOSE i \in 1..Len(index) : index[i] = n
      listed == {index[i] : i \in 1..Len(index)}
  IN  [S |-> glycan_reindex(
               [S EXCEPT !.nodes = [n \in 1..Len(S.nodes) |->
                  IF n \in listed THEN [S.nodes[n] EXCEPT !.id = <<u + at(n) - 1>>]
                  ELSE S.nodes[n]]], index),
       tree |-> [root |-> g, index |-> index, ids |-> [i \in 1..Len(index) |-> u + i - 1]]]

undecorate_tree(S, g, u) == reindexed(S, g, u, SortedSeq(Component(S, {g})))

NoTree == [root |-> 0, index |-> <<>>, ids |-> <<>>]

\* postprocess, its return statement
finish(S2, u, r) ==
  IF Failed(S2) THEN [S |-> S2, tree |-> NoTree]
  ELSE IF IsError(r) THEN [S |-> Raise(S2, r.t), tree |-> NoTree]
  ELSE undecorate_tree(S2, r.r, u)

rooted(S2, u) == finish(S2, u, IF Failed(S2) THEN None ELSE rootp(S2, S2.root))

\* a postprocess that returns the graph before the postponed list is replayed
postprocess_before_replay(S, u) ==
  rooted(expand_all(Ev(S, "postprocess", 0, 0), SortedSeq(DOMAIN S.repeats)), u)

\* GlycoCT.postprocess
postprocess(S, u) ==
  rooted(replay(expand_all(Ev(S, "postprocess", 0, 0), SortedSeq(DOMAIN S.repeats)), 1), u)

\* ------------------------------------------------------------------- state
VARIABLES
  input,            \* the lines of the stream
  handle,           \* lines of self.handle already read
  graph, state, current_repeat, in_repeat, repeats, postponed, root,
  records, nodes, bonds,
  iter,             \* self._iter: "none", or where the generator of parse stands
  gen,              \* generators made so far by __iter__
  out,              \* the graphs yielded so far
  log,              \* expansions and replays so far
  mode, cpc, got, result,  \* the caller: its code, its position, what it holds
  request,          \* the n the caller hands to expand_inner
  stops             \* the StopIterations the caller has been signalled

\* an EnzymeGraph under test (glypy/enzyme/graph.py) and the caller that holds it
VARIABLES
  eg,               \* the EnzymeGraph the caller builds: graph, seeds, default_factory
  twin,             \* the graph the caller got from eg.clone() or from loads(eg.dumps())
  returned,         \* the last call on either graph and what it returned
  epc               \* the caller of EnzymeGraph: "idle", "build", "ready"

enzymegraph == <<eg, twin, returned, epc>>

\* no EnzymeGraph object
NoEnzymeGraph == [graph |-> <<>>, seeds |-> {}, default_factory |-> "unset"]
NoCall == [op |-> "none", on |-> "none", arg |-> "", value |-> <<>>, err |-> "none", rounds |-> 0]

\* the glycoct parser runs use no EnzymeGraph
EnzymeIdle == eg = NoEnzymeGraph /\ twin = NoEnzymeGraph /\ returned = NoCall /\ epc = "idle"

parser == <<graph, state, current_repeat, in_repeat, repeats, postponed, root, records, nodes, bonds, log>>
caller == <<mode, cpc, got, result, request, stops>>
\* a WURCSParser (glypy/io/wurcs/parser.py) and the caller of loads
VARIABLES
  wurcs_line,       \* the sections of the line handed to loads
  wurcs_pc,         \* the caller of loads: "idle", "call", "done"
  wurcs_result      \* what loads returned or raised, and the bonds parse made

wurcs == <<wurcs_line, wurcs_pc, wurcs_result>>

NoLine == [nodes |-> <<>>, connectivity |-> <<>>]
NoParse == [kind |-> "none", err |-> "none", root |-> 0, counts |-> <<>>, declared |-> <<>>, bonds |-> <<>>]

\* the other runs use no WURCSParser
WurcsIdle == wurcs_line = NoLine /\ wurcs_result = NoParse /\ wurcs_pc = "idle"

glycoct == <<input, handle, parser, iter, gen, out, caller>>
vars == <<glycoct, enzymegraph, wurcs>>

Cur ==
  [graph |-> graph, state |-> state, current_repeat |-> current_repeat,
   in_repeat |-> in_repeat, repeats |-> repeats, postponed |-> postponed,
   root |-> root, records |-> records, nodes |-> nodes, bonds |-> bonds,
   log |-> log, gen |-> gen, err |-> "none"]

Commit(S) ==
  /\ graph' = S.graph /\ state' = S.state /\ current_repeat' = S.current_repeat
  /\ in_repeat' = S.in_repeat /\ repeats' = S.repeats /\ postponed' = S.postponed
  /\ root' = S.root /\ records' = S.records /\ nodes' = S.nodes /\ bonds' = S.bonds
  /\ log' = S.log

\* GlycoCT.__init__ and the call of the caller
InitParse ==
  /\ input \in Streams
  /\ handle = 0
  /\ graph = EmptyDict /\ state = START /\ current_repeat = None
  /\ in_repeat = FALSE /\ repeats = EmptyDict /\ postponed = <<>> /\ root = None
  /\ records = <<>> /\ nodes = <<>> /\ bonds = <<>>
  /\ iter = "none" /\ gen = 0 /\ out = <<>> /\ log = <<>>
  /\ mode \in {"iterate", "loads", "drain"}
  /\ cpc = (IF mode = "loads" THEN "first" ELSE "iter")
  /\ got = <<>>
  /\ result = [kind |-> "none", err |-> "none"]
  /\ request = NoCount
  /\ stops = 0
  /\ EnzymeIdle
  /\ WurcsIdle

\* A RepeatRecord holding a chain of c residues under the source indices
\* 4 .. 3+c, its header read: what the REP section of MiddleDoc(c, lo, hi)
\* leaves in the record, the header naming pp as the parent position.
Blank ==
  [graph |-> EmptyDict, state |-> START, current_repeat |-> None, in_repeat |-> FALSE,
   repeats |-> EmptyDict, postponed |-> <<>>, root |-> None, records |-> <<>>,
   nodes |-> <<>>, bonds |-> <<>>, log |-> <<>>, gen |-> 0, err |-> "none"]

RECURSIVE unit_links(_, _, _)
unit_links(S, i, c) ==
  IF i >= c THEN S
  ELSE unit_links(form_link(S, NodeRef(i), NodeRef(i + 1), PosList(P4), PosList(P1),
                            LossOf("o"), LossOf("d"), i, "line", 0),
                  i + 1, c)

UnitState(c, lo, hi, pp) ==
  LET linkage == [set |-> TRUE, p |-> 3 + c, c |-> 4, pa |-> "o", ca |-> "d", pp |-> pp, cp |-> P1]
  IN  unit_links(
        [Blank EXCEPT
           !.nodes = [i \in 1..c |-> Residue(ResTok(3 + i), 0)],
           !.records = <<[NewRecord(2, 1) EXCEPT
                            !.graph = [k \in 4..(3 + c) |-> k - 3],
                            !.internal_linkage = linkage,
                            !.external_linkage = linkage,
                            !.multitude = <<lo, hi>>]>>],
        1, c)

\* the copy counts a caller of expand_inner asks for
Requests == {NoCount} \cup {Count(n) : n \in 0..(MaxMult + 1)}

\* a caller that holds one filled RepeatRecord and is about to expand it
Holding(S) ==
  /\ graph = S.graph /\ state = S.state /\ current_repeat = S.current_repeat
  /\ in_repeat = S.in_repeat /\ repeats = S.repeats /\ postponed = S.postponed
  /\ root = S.root /\ records = S.records /\ nodes = S.nodes /\ bonds = S.bonds
  /\ log = S.log

InitExpand ==
  /\ input = <<>>
  /\ handle = 0
  /\ \E c \in 1..MaxRes, m \in Mults \X Mults, pp \in {P4, PUnknown, P2or4} :
       Holding(UnitState(c, m[1], m[2], pp))
  /\ iter = "none" /\ gen = 0 /\ out = <<>>
  /\ mode = "expand"
  /\ cpc = "expand"
  /\ got = <<>>
  /\ result = [kind |-> "none", err |-> "none"]
  /\ request \in Requests
  /\ stops = 0
  /\ EnzymeIdle
  /\ WurcsIdle

Init == InitParse \/ InitExpand

\* ------------------------------------------------------------- the caller
\* mode "iterate" is `for g in parser`; mode "loads" is the module-level
\* loads: first = g.next(); second = g.next(); [first, second] + list(g),
\* or first alone when the second call raises StopIteration; mode "drain" is
\* `for g in parser` followed by further calls of parser.next().

\* next() hands a graph to the caller
Receive(tree) ==
  /\ got' = Append(got, tree)
  /\ cpc' = (CASE cpc = "first" -> "second" [] cpc = "second" -> "list_iter" [] OTHER -> cpc)
  /\ UNCHANGED <<mode, result, request, stops>>

\* next() raises StopIteration
ReceiveStop ==
  /\ stops' = stops + 1
  /\ cpc' = (IF mode = "drain" /\ stops + 1 < MaxStops THEN "next" ELSE "done")
  /\ result' = (CASE cpc = "first" -> [kind |-> "raise", err |-> "StopIteration"]
                  [] cpc = "second" -> [kind |-> "single", err |-> "none"]
                  [] OTHER -> [kind |-> "list", err |-> "none"])
  /\ UNCHANGED <<mode, got, request>>

\* next() raises the exception e of the parser
ReceiveError(e) ==
  /\ cpc' = "done"
  /\ result' = [kind |-> "raise", err |-> e]
  /\ UNCHANGED <<mode, got, request, stops>>

\* GlycoCT.__iter__, called by the for statement and by list(g)
CallIter ==
  /\ cpc \in {"iter", "list_iter"}
  /\ iter' = "created"
  /\ gen' = gen + 1
  /\ cpc' = (IF cpc = "iter" THEN "next" ELSE "list_next")
  /\ UNCHANGED <<wurcs, enzymegraph, input, handle, parser, out, mode, got, result, request, stops>>

\* a next() that starts parse() over once the generator has returned
CallNext_restarts ==
  /\ cpc \in {"next", "first", "second", "list_next"}
  /\ iter # "running"
  /\ IF iter \in {"none", "created", "finished"}
       THEN /\ iter' = "running"
            /\ gen' = (IF iter = "created" THEN gen ELSE gen + 1)
            /\ UNCHANGED <<parser, caller>>
     ELSE IF iter = "yield628"
       THEN /\ iter' = "running"
            /\ Commit(reset(Cur))
            /\ UNCHANGED <<gen, caller>>
     ELSE /\ iter' = "finished"
          /\ ReceiveStop
          /\ UNCHANGED <<parser, gen>>
  /\ UNCHANGED <<wurcs, enzymegraph, input, handle, out>>

\* GlycoCT.next / generator.next: the generator is made if there is none, and
\* resumed where it stands: at its start, after the yield of the RES branch
\* (where _reset runs), or after the last yield (where it returns)
CallNext ==
  /\ cpc \in {"next", "first", "second", "list_next"}
  /\ iter # "running"
  /\ IF iter \in {"none", "created"}
       THEN /\ iter' = "running"
            /\ gen' = (IF iter = "none" THEN gen + 1 ELSE gen)
            /\ UNCHANGED <<parser, caller>>
     ELSE IF iter = "yield628"
       THEN /\ iter' = "running"
            /\ Commit(reset(Cur))
            /\ UNCHANGED <<gen, caller>>
     ELSE /\ iter' = "finished"
          /\ ReceiveStop
          /\ UNCHANGED <<parser, gen>>
  /\ UNCHANGED <<wurcs, enzymegraph, input, handle, out>>

\* ------------------------------------------------------------ GlycoCT.parse
Reading == iter = "running" /\ handle < Len(input)
token == input[handle + 1]

\* the handler returned or raised
Step(S) ==
  /\ Commit(S)
  /\ IF Failed(S)
       THEN iter' = "finished" /\ ReceiveError(S.err)
       ELSE iter' = "running" /\ UNCHANGED caller
  /\ UNCHANGED out

\* yield self.postprocess()
Yield(P, where, at) ==
  /\ Commit(P.S)
  /\ IF Failed(P.S)
       THEN iter' = "finished" /\ ReceiveError(P.S.err) /\ UNCHANGED out
       ELSE LET tree == [root |-> P.tree.root, index |-> P.tree.index, ids |-> P.tree.ids,
                         gen |-> gen, at |-> at]
            IN  iter' = where /\ out' = Append(out, tree) /\ Receive(tree)

\* a RES branch that closes an open repeat section
ResKeyword_closes_repeat ==
  /\ Reading /\ token.k = RES
  /\ handle' = handle + 1
  /\ LET S == [Cur EXCEPT !.state = RES, !.in_repeat = FALSE]
     IN  IF root # None
           THEN \E u \in 0..MaxUuid : Yield(postprocess(S, u), "yield628", handle + 1)
           ELSE Step(S)
  /\ UNCHANGED <<wurcs, enzymegraph, input, gen>>

\* RES == line.strip()
ResKeyword ==
  /\ Reading /\ token.k = RES
  /\ handle' = handle + 1
  /\ LET S == [Cur EXCEPT !.state = RES]
     IN  IF root # None /\ ~in_repeat
           THEN \E u \in 0..MaxUuid : Yield(postprocess(S, u), "yield628", handle + 1)
           ELSE Step(S)
  /\ UNCHANGED <<wurcs, enzymegraph, input, gen>>

\* a LIN branch without the state test
LinKeyword_any_state ==
  /\ Reading /\ token.k = LIN
  /\ handle' = handle + 1
  /\ Step([Cur EXCEPT !.state = LIN])
  /\ UNCHANGED <<wurcs, enzymegraph, input, gen>>

\* LIN == line.strip()
LinKeyword ==
  /\ Reading /\ token.k = LIN
  /\ handle' = handle + 1
  /\ Step(IF state # RES THEN Raise(Cur, "GlycoCTError") ELSE [Cur EXCEPT !.state = LIN])
  /\ UNCHANGED <<wurcs, enzymegraph, input, gen>>

\* REP == line.strip()
RepKeyword ==
  /\ Reading /\ token.k = REP
  /\ handle' = handle + 1
  /\ Step([Cur EXCEPT !.state = REP, !.in_repeat = TRUE])
  /\ UNCHANGED <<wurcs, enzymegraph, input, gen>>

\* a header branch without the in_repeat test
rep_header_anywhere(S, tok) ==
  IF tok.rep \notin DOMAIN S.repeats THEN Raise(S, "KeyError")
  ELSE LET r == S.repeats[tok.rep]
           linkage == [set |-> TRUE, p |-> tok.p, c |-> tok.c, pa |-> tok.pa, ca |-> tok.ca,
                       pp |-> tok.pp, cp |-> tok.cp]
       IN  [S EXCEPT !.current_repeat = RepRef(r),
                     !.records[r].internal_linkage = linkage,
                     !.records[r].external_linkage = linkage,
                     !.records[r].multitude = <<tok.lo, tok.hi>>,
                     !.state = START]

\* line.strip()[:3] == REP: a repeat header
rep_header(S, tok) ==
  IF ~S.in_repeat THEN Raise(S, "GlycoCTError")
  ELSE IF tok.rep \notin DOMAIN S.repeats THEN Raise(S, "KeyError")
  ELSE LET r == S.repeats[tok.rep]
           linkage == [set |-> TRUE, p |-> tok.p, c |-> tok.c, pa |-> tok.pa, ca |-> tok.ca,
                       pp |-> tok.pp, cp |-> tok.cp]
       IN  [S EXCEPT !.current_repeat = RepRef(r),
                     !.records[r].internal_linkage = linkage,
                     !.records[r].external_linkage = linkage,
                     !.records[r].multitude = <<tok.lo, tok.hi>>,
                     !.state = START]

RepHeader ==
  /\ Reading /\ token.k = "h"
  /\ handle' = handle + 1
  /\ Step(rep_header(Cur, token))
  /\ UNCHANGED <<wurcs, enzymegraph, input, gen>>

\* ALT and UND raising the plain error of the else branch
Unsupported_as_format_error ==
  /\ Reading /\ token.k \in {ALT, UND}
  /\ handle' = handle + 1
  /\ Step(Raise(Cur, "GlycoCTError"))
  /\ UNCHANGED <<wurcs, enzymegraph, input, gen>>

\* ALT == line.strip(), UND == line.strip()
Unsupported ==
  /\ Reading /\ token.k \in {ALT, UND}
  /\ handle' = handle + 1
  /\ Step(Raise(Cur, "GlycoCTSectionUnsupported"))
  /\ UNCHANGED <<wurcs, enzymegraph, input, gen>>

ResidueLine ==
  /\ Reading /\ token.k = "b" /\ state = RES
  /\ handle' = handle + 1
  /\ Step(handle_residue_line(Cur, token, handle + 1))
  /\ UNCHANGED <<wurcs, enzymegraph, input, gen>>

SubstituentLine ==
  /\ Reading /\ token.k = "s" /\ state = RES
  /\ handle' = handle + 1
  /\ Step(handle_residue_substituent(Cur, token, handle + 1))
  /\ UNCHANGED <<wurcs, enzymegraph, input, gen>>

RepeatStub ==
  /\ Reading /\ token.k = "r" /\ state = RES
  /\ handle' = handle + 1
  /\ Step(handle_repeat_stub(Cur, token))
  /\ UNCHANGED <<wurcs, enzymegraph, input, gen>>

LinkageLine ==
  /\ Reading /\ token.k = "l" /\ state = LIN
  /\ handle' = handle + 1
  /\ Step(handle_linkage(Cur, token, handle + 1))
  /\ UNCHANGED <<wurcs, enzymegraph, input, gen>>

\* an else branch that passes over the line
FormatError_skips ==
  /\ Reading
  /\ \/ token.k = "?"
     \/ token.k \in {"b", "s", "r"} /\ state # RES
     \/ token.k = "l" /\ state # LIN
  /\ handle' = handle + 1
  /\ Step(Cur)
  /\ UNCHANGED <<wurcs, enzymegraph, input, gen>>

\* the else branch: no pattern matches in this state
FormatError ==
  /\ Reading
  /\ \/ token.k = "?"
     \/ token.k \in {"b", "s", "r"} /\ state # RES
     \/ token.k = "l" /\ state # LIN
  /\ handle' = handle + 1
  /\ Step(Raise(Cur, "GlycoCTError"))
  /\ UNCHANGED <<wurcs, enzymegraph, input, gen>>

\* the stream is used up: in_repeat is cleared and the last graph is yielded
EndOfStream ==
  /\ iter = "running" /\ handle = Len(input)
  /\ \E u \in 0..MaxUuid : Yield(postprocess([Cur EXCEPT !.in_repeat = FALSE], u), "yield676", handle)
  /\ UNCHANGED <<wurcs, enzymegraph, input, handle, gen>>

\* ------------------------------------------------ RepeatRecord.expand_inner
\* expand_inner returned or raised
Expanded(S) ==
  /\ Commit(S)
  /\ cpc' = "done"
  /\ result' = (IF Failed(S) THEN [kind |-> "raise", err |-> S.err]
                ELSE [kind |-> "expanded", err |-> "none"])

\* the caller's record.expand_inner(n) / record.expand_inner()
ExpandInner ==
  /\ cpc = "expand"
  /\ Expanded(expand_inner(Cur, 1, request))
  /\ UNCHANGED <<wurcs, enzymegraph, input, handle, iter, gen, out, mode, got, request, stops>>

Next ==
  \/ CallIter \/ CallNext
  \/ ResKeyword \/ LinKeyword \/ RepKeyword \/ RepHeader \/ Unsupported
  \/ ResidueLine \/ SubstituentLine \/ RepeatStub \/ LinkageLine
  \/ FormatError \/ EndOfStream
  \/ ExpandInner

Spec == Init /\ [][Next]_vars

\* ================================================= glypy/enzyme/graph.py
\* EnzymeGraph.graph is a dict of dicts of sets: parent -> child -> enzymes.
\* A dict is modelled by the sequence of its items <<key, value>> in
\* insertion order, the order in which Python iterates over it; two dicts
\* are equal when they hold the same keys with equal values, in any order.
\* A node is a string and so is an enzyme.
Nodes == {"a", "b", "c"}
Enzymes == {"e", "f"}
\* the edges a caller draws: a parent and a child made from it
Pairs == {<<"a", "b">>, <<"a", "c">>, <<"b", "c">>, <<"c", "b">>}
\* the seeds a caller names when it does not leave them to parentless()
SeedChoices == {{}, {"a"}}
\* the order in which list(a set) lists the strings of the model
Order == <<"a", "b", "c", "e", "f">>

keys(d) == {d[i][1] : i \in DOMAIN d}
get(d, k) == d[CHOOSE i \in DOMAIN d : d[i][1] = k][2]
pop(d, k) == SelectSeq(d, LAMBDA it : it[1] # k)
setitem(d, k, v) ==
  IF k \in keys(d)
    THEN [i \in DOMAIN d |-> IF d[i][1] = k THEN <<k, v>> ELSE d[i]]
    ELSE Append(d, <<k, v>>)
list(S) == SelectSeq(Order, LAMBDA x : x \in S)
MapSeq(s, F(_)) == IF DOMAIN s = {} THEN <<>> ELSE [i \in DOMAIN s |-> F(s[i])]

\* str(node) of a node that is a string
str(node) == node

\* graph[parent][child].add(enzyme) on the defaultdict(_enzyme_graph_inner)
\* a caller fills: a missing parent gets an empty inner dict, a missing
\* child an empty set
add_edge(mapping, parent, child, enzyme) ==
  LET inner == IF parent \in keys(mapping) THEN get(mapping, parent) ELSE <<>>
      held == IF child \in keys(inner) THEN get(inner, child) ELSE {}
  IN  setitem(mapping, parent, setitem(inner, child, held \cup {enzyme}))

\* EnzymeGraph.parentless, on self.graph
parentless(mapping) ==
  keys(mapping) \ UNION {keys(mapping[i][2]) : i \in DOMAIN mapping}

\* EnzymeGraph.__init__(graph, seeds); given = FALSE is seeds=None
EnzymeGraph(mapping, given, seeds, factory) ==
  [graph |-> mapping,
   seeds |-> IF given THEN seeds ELSE parentless(mapping),
   default_factory |-> factory]

\* EnzymeGraph.clone: only the parents that have a child are written to
\* the new defaultdict
clone(G) ==
  EnzymeGraph(SelectSeq(G.graph, LAMBDA it : DOMAIN it[2] # {}), TRUE, G.seeds,
              "_enzyme_graph_inner")

\* EnzymeGraph.nodes
nodes_of(G) ==
  keys(G.graph) \cup UNION {keys(G.graph[i][2]) : i \in DOMAIN G.graph}

\* EnzymeGraph.edges
edges(G) ==
  UNION {UNION {{<<G.graph[i][1], G.graph[i][2][j][1], val>> : val \in G.graph[i][2][j][2]}
                 : j \in DOMAIN G.graph[i][2]}
          : i \in DOMAIN G.graph}

\* EnzymeGraph.node_count
node_count(G) == Cardinality(nodes_of(G))

RECURSIVE Total(_)
Total(s) == IF DOMAIN s = {} THEN 0 ELSE Head(s) + Total(Tail(s))

\* EnzymeGraph.edge_count
edge_count(G) ==
  Total(MapSeq(G.graph, LAMBDA it : Total(MapSeq(it[2], LAMBDA e : Cardinality(e[2])))))

\* EnzymeGraph.enzymes
enzymes(G) ==
  UNION {UNION {G.graph[i][2][j][2] : j \in DOMAIN G.graph[i][2]} : i \in DOMAIN G.graph}

\* EnzymeGraph.parents
parents(G, target) ==
  MapSeq(SelectSeq(G.graph, LAMBDA it : target \in keys(it[2])), LAMBDA it : it[1])

\* a call of a method: the object afterwards, the value, the exception
Gave(G, value) == [self |-> G, value |-> value, err |-> "none", rounds |-> 0]
Raised(G, err) == [self |-> G, value |-> <<>>, err |-> err, rounds |-> 0]

\* EnzymeGraph.children: self.graph[target] of a defaultdict writes the
\* missing target, of a dict raises KeyError
children(G, target) ==
  IF target \in keys(G.graph)
    THEN Gave(G, MapSeq(get(G.graph, target), LAMBDA it : it[1]))
    ELSE IF G.default_factory = "_enzyme_graph_inner"
           THEN Gave([G EXCEPT !.graph = Append(@, <<target, <<>>>>)], <<>>)
           ELSE Raised(G, "KeyError")

\* EnzymeGraph.remove, on self.graph
remove(mapping, prune) == IF prune \in keys(mapping) THEN pop(mapping, prune) ELSE mapping

\* remove_enzyme, the inner loop `for inner_key, inner_value in
\* list(outer_value.items())` from its j-th item on; R holds self.graph and
\* edges_removed
RECURSIVE remove_enzyme_inner(_, _, _, _, _)
remove_enzyme_inner(R, outer_key, items, j, enzyme) ==
  IF j > Len(items) THEN R
  ELSE LET inner_key == items[j][1]
           outer_value == get(R.graph, outer_key)
           inner_value == get(outer_value, inner_key)
       IN  remove_enzyme_inner(
             [graph |->
                IF keys(outer_value) = {inner_key} /\ inner_value \subseteq {enzyme}
                  THEN pop(R.graph, outer_key)
                  ELSE setitem(R.graph, outer_key,
                               IF inner_value \subseteq {enzyme}
                                 THEN pop(outer_value, inner_key)
                                 ELSE setitem(outer_value, inner_key, inner_value \ {enzyme})),
              edges_removed |->
                IF enzyme \in inner_value
                  THEN Append(R.edges_removed, <<outer_key, inner_key>>)
                  ELSE R.edges_removed],
             outer_key, items, j + 1, enzyme)

\* remove_enzyme, the outer loop `for outer_key, outer_value in
\* list(self.graph.items())` from its i-th item on
RECURSIVE remove_enzyme_outer(_, _, _, _)
remove_enzyme_outer(R, items, i, enzyme) ==
  IF i > Len(items) THEN R
  ELSE remove_enzyme_outer(remove_enzyme_inner(R, items[i][1], items[i][2], 1, enzyme),
                           items, i + 1, enzyme)

RECURSIVE remove_all(_, _)
remove_all(mapping, todo) ==
  IF DOMAIN todo = {} THEN mapping ELSE remove_all(remove(mapping, Head(todo)), Tail(todo))

\* remove_enzyme, a single pass in place of the loop `while nodes_to_remove`
prune_once(mapping, seeds, rounds) ==
  IF parentless(mapping) \ seeds = {}
    THEN [graph |-> mapping, rounds |-> rounds]
    ELSE [graph |-> remove_all(mapping, list(parentless(mapping) \ seeds)), rounds |-> rounds + 1]

\* remove_enzyme, the loop `while nodes_to_remove`; rounds counts its turns
RECURSIVE prune(_, _, _)
prune(mapping, seeds, rounds) ==
  IF parentless(mapping) \ seeds = {}
    THEN [graph |-> mapping, rounds |-> rounds]
    ELSE prune(remove_all(mapping, list(parentless(mapping) \ seeds)), seeds, rounds + 1)

\* the end of remove_enzyme once its loops over the edges are done
remove_enzyme_pruned(G, R) ==
  [self |-> [G EXCEPT !.graph = prune(R.graph, G.seeds, 0).graph],
   value |-> R.edges_removed, err |-> "none",
   rounds |-> prune(R.graph, G.seeds, 0).rounds]

\* EnzymeGraph.remove_enzyme
remove_enzyme(G, enzyme) ==
  remove_enzyme_pruned(
    G, remove_enzyme_outer([graph |-> G.graph, edges_removed |-> <<>>], G.graph, 1, enzyme))

\* EnzymeGraph._dump
dump(G) ==
  [seeds |-> MapSeq(list(G.seeds), LAMBDA sd : str(sd)),
   enzymes |-> list(enzymes(G)),
   graph |-> MapSeq(G.graph, LAMBDA it :
               <<str(it[1]), MapSeq(it[2], LAMBDA e : <<str(e[1]), list(e[2])>>)>>)]

\* sort_keys=True of json.dumps, on one object
sort_keys(d) == MapSeq(list(keys(d)), LAMBDA k : <<k, get(d, k)>>)

\* EnzymeGraph.dumps.  The JSON text is held as the document it spells:
\* every object with its keys in the order they are written, every array
\* with its elements in order.
dumps(G) ==
  [dump(G) EXCEPT !.graph = sort_keys(MapSeq(@, LAMBDA it : <<it[1], sort_keys(it[2])>>))]

\* EnzymeGraph._load, the seeds left to __init__
load_default_seeds(data_structure) ==
  EnzymeGraph(
    MapSeq(data_structure.graph, LAMBDA it :
      <<it[1], MapSeq(it[2], LAMBDA e : <<e[1], {e[2][x] : x \in DOMAIN e[2]}>>)>>),
    FALSE, {}, "none")

\* EnzymeGraph._load, _load_entity being the identity of EnzymeGraph
load(data_structure) ==
  EnzymeGraph(
    MapSeq(data_structure.graph, LAMBDA it :
      <<it[1], MapSeq(it[2], LAMBDA e : <<e[1], {e[2][x] : x \in DOMAIN e[2]}>>)>>),
    TRUE, {data_structure.seeds[x] : x \in DOMAIN data_structure.seeds}, "none")

\* EnzymeGraph.loads: json.loads reads the objects in the order of the text
loads(text) == load(text)

\* dict == dict, on the inner dicts and on self.graph
inner_eq(d1, d2) == keys(d1) = keys(d2) /\ \A k \in keys(d1) : get(d1, k) = get(d2, k)
graph_eq(g1, g2) == keys(g1) = keys(g2) /\ \A k \in keys(g1) : inner_eq(get(g1, k), get(g2, k))

\* EnzymeGraph.__eq__
eq(G, H) == graph_eq(G.graph, H.graph)

\* -------------------------------------------- the caller of EnzymeGraph
\* The caller fills a defaultdict(_enzyme_graph_inner) edge by edge, makes
\* an EnzymeGraph of it, and then calls its methods; it may take one copy,
\* by clone() or by loads(dumps()), and once it has the copy it only asks.
EnzymeInit ==
  /\ input = <<>> /\ handle = 0
  /\ Holding(Blank)
  /\ iter = "none" /\ gen = 0 /\ out = <<>>
  /\ mode = "enzyme" /\ cpc = "done" /\ got = <<>>
  /\ result = [kind |-> "none", err |-> "none"]
  /\ request = NoCount /\ stops = 0
  /\ eg = [graph |-> <<>>, seeds |-> {}, default_factory |-> "_enzyme_graph_inner"]
  /\ twin = NoEnzymeGraph
  /\ returned = NoCall
  /\ epc = "build"
  /\ WurcsIdle

CallOf(op, on, arg, r) ==
  [op |-> op, on |-> on, arg |-> arg, value |-> r.value, err |-> r.err, rounds |-> r.rounds]

\* graph[parent][child].add(enzyme), before the EnzymeGraph is made
AddEdge ==
  /\ epc = "build"
  /\ edge_count(eg) < MaxEdges
  /\ \E pair \in Pairs, enzyme \in Enzymes :
       eg' = [eg EXCEPT !.graph = add_edge(@, pair[1], pair[2], enzyme)]
  /\ UNCHANGED <<wurcs, glycoct, twin, returned, epc>>

\* EnzymeGraph(graph) and EnzymeGraph(graph, seeds)
Construct ==
  /\ epc = "build"
  /\ \/ eg' = EnzymeGraph(eg.graph, FALSE, {}, eg.default_factory)
     \/ \E seeds \in SeedChoices : eg' = EnzymeGraph(eg.graph, TRUE, seeds, eg.default_factory)
  /\ epc' = "ready"
  /\ UNCHANGED <<wurcs, glycoct, twin, returned>>

\* a call of a method that asks, on eg or on its copy
Ask(op, on, arg, r) ==
  /\ epc = "ready"
  /\ on = "twin" => twin # NoEnzymeGraph
  /\ eg' = IF on = "eg" THEN r.self ELSE eg
  /\ twin' = IF on = "twin" THEN r.self ELSE twin
  /\ returned' = CallOf(op, on, arg, r)
  /\ UNCHANGED <<wurcs, glycoct, epc>>

Held(on) == IF on = "eg" THEN eg ELSE twin
Holders == {"eg", "twin"}

CallNodes == \E on \in Holders : Ask("nodes", on, "", Gave(Held(on), nodes_of(Held(on))))
CallEdges == \E on \in Holders : Ask("edges", on, "", Gave(Held(on), edges(Held(on))))
CallNodeCount == \E on \in Holders : Ask("node_count", on, "", Gave(Held(on), node_count(Held(on))))
CallEdgeCount == \E on \in Holders : Ask("edge_count", on, "", Gave(Held(on), edge_count(Held(on))))
CallEnzymes == \E on \in Holders : Ask("enzymes", on, "", Gave(Held(on), enzymes(Held(on))))
CallParents ==
  \E on \in Holders, target \in Nodes :
    Ask("parents", on, target, Gave(Held(on), parents(Held(on), target)))
CallParentless ==
  \E on \in Holders : Ask("parentless", on, "", Gave(Held(on), parentless(Held(on).graph)))
CallChildren ==
  \E on \in Holders, target \in Nodes : Ask("children", on, target, children(Held(on), target))

\* eg.remove_enzyme(enzyme)
CallRemoveEnzyme ==
  /\ epc = "ready"
  /\ twin = NoEnzymeGraph
  /\ \E enzyme \in Enzymes :
       /\ eg' = remove_enzyme(eg, enzyme).self
       /\ returned' = CallOf("remove_enzyme", "eg", enzyme, remove_enzyme(eg, enzyme))
  /\ UNCHANGED <<wurcs, glycoct, twin, epc>>

\* eg.clone()
CallClone ==
  /\ epc = "ready"
  /\ twin = NoEnzymeGraph
  /\ twin' = clone(eg)
  /\ returned' = CallOf("clone", "eg", "", Gave(eg, <<>>))
  /\ UNCHANGED <<wurcs, glycoct, eg, epc>>

\* EnzymeGraph.loads(eg.dumps())
CallLoads ==
  /\ epc = "ready"
  /\ twin = NoEnzymeGraph
  /\ twin' = loads(dumps(eg))
  /\ returned' = CallOf("loads", "eg", "", Gave(eg, <<>>))
  /\ UNCHANGED <<wurcs, glycoct, eg, epc>>

EnzymeNext ==
  \/ AddEdge \/ Construct
  \/ CallNodes \/ CallEdges \/ CallNodeCount \/ CallEdgeCount \/ CallEnzymes
  \/ CallParents \/ CallParentless \/ CallChildren
  \/ CallRemoveEnzyme \/ CallClone \/ CallLoads

EnzymeSpec == EnzymeInit /\ [][EnzymeNext]_vars

\* ============================================= glypy/io/wurcs/parser.py
\* A section of the line is the sequence of its characters.  The node
\* type section is not read here: the line declares NodeTypes node types,
\* and a node is the index of its type.
NodeTypes == {1, 2}
Letters == {"a", "b", "c", "d", "e", "O"}
Digits == {"0", "1", "2", "3", "4", "5", "6", "7", "8", "9"}

\* utils.base52(i), for the first indices
base52(i) == <<"a", "b", "c", "d", "e">>[i + 1]

Has(txt, ch) == \E i \in DOMAIN txt : txt[i] = ch

\* txt.split(sep)
RECURSIVE split(_, _, _)
split(txt, sep, cur) ==
  IF txt = <<>> THEN <<cur>>
  ELSE IF Head(txt) = sep THEN <<cur>> \o split(Tail(txt), sep, <<>>)
  ELSE split(Tail(txt), sep, Append(cur, Head(txt)))

RECURSIVE RunLen(_, _, _)
RunLen(txt, i, among) ==
  IF i <= Len(txt) /\ txt[i] \in among THEN 1 + RunLen(txt, i + 1, among) ELSE 0

\* what follows l letters at i: "?" or a run of digits
TailLen(txt, j) == IF j <= Len(txt) /\ txt[j] = "?" THEN 1 ELSE RunLen(txt, j, Digits)

\* parse_connection.findall(txt), the pattern ([a-zA-Z]+)([0-9]+|\?), from
\* the i-th character on
RECURSIVE findall(_, _)
findall(txt, i) ==
  IF i > Len(txt) THEN <<>>
  ELSE IF RunLen(txt, i, Letters) = 0 THEN findall(txt, i + 1)
  ELSE IF TailLen(txt, i + RunLen(txt, i, Letters)) = 0
    THEN findall(txt, i + RunLen(txt, i, Letters))
  ELSE <<<<SubSeq(txt, i, i + RunLen(txt, i, Letters) - 1),
           SubSeq(txt, i + RunLen(txt, i, Letters),
                  i + RunLen(txt, i, Letters) + TailLen(txt, i + RunLen(txt, i, Letters)) - 1)>>>>
       \o findall(txt, i + RunLen(txt, i, Letters) + TailLen(txt, i + RunLen(txt, i, Letters)))

\* parse_node_index_to_type_section: node i - 1 of the type the i-th
\* number names, under the glyph base52(i - 1)
parse_node_index_to_type_section(section) ==
  [i \in 1..Len(split(section, "-", <<>>)) |->
     [id |-> i - 1, type |-> ParseNat(split(section, "-", <<>>)[i], 0)]]

\* self.glyph_to_node_index[glyph] with n nodes declared; -1: KeyError
glyph_to_node_index(glyph, n) ==
  IF Len(glyph) = 1 /\ \E i \in 0..(n - 1) : base52(i) = glyph[1]
    THEN CHOOSE i \in 0..(n - 1) : base52(i) = glyph[1]
    ELSE -1

\* try_int(position) or -1
position_or_unknown(txt) ==
  IF try_int(txt).some /\ try_int(txt).v # 0 THEN try_int(txt).v ELSE -1

Threw(err) == [err |-> err, bond |-> <<>>]
Bonded(bond) == [err |-> "none", bond |-> <<bond>>]

\* Link(...) or AmbiguousLink(...) of the specs once they are in order
make_bond(n, has_ambiguity, parent_spec, child_spec) ==
  IF has_ambiguity
    THEN IF \E k \in DOMAIN parent_spec : glyph_to_node_index(parent_spec[k][1], n) < 0
           THEN Threw("KeyError")
         ELSE IF \E k \in DOMAIN child_spec : glyph_to_node_index(child_spec[k][1], n) < 0
           THEN Threw("KeyError")
         ELSE Bonded([ambiguous |-> TRUE,
                      parents |-> MapSeq(parent_spec, LAMBDA it : glyph_to_node_index(it[1], n)),
                      children |-> MapSeq(child_spec, LAMBDA it : glyph_to_node_index(it[1], n)),
                      parent_position |-> MapSeq(parent_spec, LAMBDA it : position_or_unknown(it[2])),
                      child_position |-> MapSeq(child_spec, LAMBDA it : position_or_unknown(it[2]))])
    ELSE Bonded([ambiguous |-> FALSE,
                 parents |-> <<glyph_to_node_index(parent_spec[1][1], n)>>,
                 children |-> <<glyph_to_node_index(child_spec[1][1], n)>>,
                 parent_position |-> <<position_or_unknown(parent_spec[1][2])>>,
                 child_position |-> <<position_or_unknown(child_spec[1][2])>>])

\* the specs of one link: the first glyph of each side, the swap
order_specs(n, has_ambiguity, parent_spec, child_spec) ==
  IF parent_spec = <<>> \/ child_spec = <<>> THEN Threw("IndexError")
  ELSE IF glyph_to_node_index(child_spec[1][1], n) < 0 THEN Threw("KeyError")
  ELSE IF glyph_to_node_index(parent_spec[1][1], n) < 0 THEN Threw("KeyError")
  ELSE IF glyph_to_node_index(child_spec[1][1], n) < glyph_to_node_index(parent_spec[1][1], n)
    THEN make_bond(n, has_ambiguity, child_spec, parent_spec)
  ELSE make_bond(n, has_ambiguity, parent_spec, child_spec)

\* link.split("-", 1)
Dash(link) == CHOOSE i \in DOMAIN link : link[i] = "-" /\ \A j \in 1..(i - 1) : link[j] # "-"

\* one turn of `for link in links`
connect(n, link) ==
  IF Has(link, "*") THEN Threw("WURCSFeatureNotSupported")
  ELSE IF ~Has(link, "-") THEN Threw("ValueError")
  ELSE order_specs(n, Has(link, "|"),
                   findall(SubSeq(link, 1, Dash(link) - 1), 1),
                   findall(SubSeq(link, Dash(link) + 1, Len(link)), 1))

\* `for link in links` from the k-th link on; M holds the bonds made
RECURSIVE connect_all(_, _, _, _)
connect_all(M, n, links, k) ==
  IF k > Len(links) THEN M
  ELSE IF connect(n, links[k]).err # "none"
    THEN [M EXCEPT !.err = connect(n, links[k]).err]
  ELSE connect_all([M EXCEPT !.bonds = @ \o connect(n, links[k]).bond], n, links, k + 1)

Mapped(ret, err) == [ret |-> ret, err |-> err, bonds |-> <<>>]

\* parse_connectivity_map with every braced section taken for a composition
parse_connectivity_map_any_braces(n, section) ==
  IF section = <<>> THEN Mapped(FALSE, "none")
  ELSE IF Has(section, "{") \/ Has(section, "}") THEN Mapped(FALSE, "none")
  ELSE connect_all(Mapped(TRUE, "none"), n, split(section, "_", <<>>), 1)

\* WURCSParser.parse_connectivity_map, n nodes declared
parse_connectivity_map(n, section) ==
  IF section = <<>> THEN Mapped(FALSE, "none")
  ELSE IF Has(section, "{") \/ Has(section, "}")
    THEN IF Len(split(section, "_", <<>>)) > 1
              /\ Cardinality({split(section, "_", <<>>)[i] : i \in DOMAIN split(section, "_", <<>>)}) = 1
           THEN Mapped(FALSE, "none")
           ELSE Mapped(FALSE, "WURCSFeatureNotSupported")
  ELSE connect_all(Mapped(TRUE, "none"), n, split(section, "_", <<>>), 1)

\* WURCSParser._to_composition from the i-th node on: gc[residue] += 1
RECURSIVE to_composition(_, _, _)
to_composition(nodes_by_index, i, gc) ==
  IF i > Len(nodes_by_index) THEN gc
  ELSE to_composition(nodes_by_index, i + 1,
                      [gc EXCEPT ![nodes_by_index[i].type] = @ + 1])

\* the end of parse: what the connectivity map makes of the nodes
parsed(declared, M) ==
  IF M.err # "none"
    THEN [kind |-> "raise", err |-> M.err, root |-> 0, counts |-> <<>>,
          declared |-> declared, bonds |-> M.bonds]
  ELSE IF M.ret
    THEN [kind |-> "glycan", err |-> "none", root |-> declared[1].id, counts |-> <<>>,
          declared |-> declared, bonds |-> M.bonds]
  ELSE [kind |-> "composition", err |-> "none", root |-> 0,
        counts |-> to_composition(declared, 1, [t \in NodeTypes |-> 0]),
        declared |-> declared, bonds |-> M.bonds]

\* WURCSParser.parse
parse(line) ==
  parsed(parse_node_index_to_type_section(line.nodes),
         parse_connectivity_map(Len(parse_node_index_to_type_section(line.nodes)),
                                line.connectivity))

\* ------------------------------------------------- the caller of loads
\* link entries: plain, declared child first, unknown position, ambiguous,
\* bridging, braced, braced otherwise
Entries ==
  {<<"a", "4", "-", "b", "1">>,
   <<"b", "3", "-", "c", "1">>,
   <<"b", "1", "-", "a", "6">>,
   <<"a", "?", "-", "b", "1">>,
   <<"b", "1", "-", "a", "3", "|", "a", "6">>,
   <<"a", "2", "-", "b", "1", "*", "O", "*">>,
   <<"a", "?", "|", "b", "?", "}", "-", "{", "a", "?", "|", "b", "?">>,
   <<"a", "?", "|", "b", "?", "}", "-", "{", "a", "?">>}

RECURSIVE Join(_, _, _)
Join(texts, i, sep) ==
  IF i > Len(texts) THEN <<>>
  ELSE IF i = Len(texts) THEN texts[i]
  ELSE texts[i] \o <<sep>> \o Join(texts, i + 1, sep)

TypeText(t) == IF t = 1 THEN <<"1">> ELSE <<"2">>

\* the node sections and the connectivity sections of the lines read
NodeSections ==
  {Join([i \in 1..k |-> TypeText(ts[i])], 1, "-") :
     k \in 2..MaxNodes, ts \in [1..MaxNodes -> NodeTypes]}
ConnectivitySections ==
  {<<>>} \cup UNION {{Join(es, 1, "_") : es \in [1..k -> Entries]} : k \in 1..MaxLinks}

\* WURCSParser.__init__ and the caller about to call loads
WurcsInit ==
  /\ input = <<>> /\ handle = 0
  /\ Holding(Blank)
  /\ iter = "none" /\ gen = 0 /\ out = <<>>
  /\ mode = "wurcs" /\ cpc = "done" /\ got = <<>>
  /\ result = [kind |-> "none", err |-> "none"]
  /\ request = NoCount /\ stops = 0
  /\ EnzymeIdle
  /\ wurcs_line \in [nodes : NodeSections, connectivity : ConnectivitySections]
  /\ wurcs_result = NoParse
  /\ wurcs_pc = "call"

\* loads(text)
WurcsLoads ==
  /\ wurcs_pc = "call"
  /\ wurcs_result' = parse(wurcs_line)
  /\ wurcs_pc' = "done"
  /\ UNCHANGED <<glycoct, enzymegraph, wurcs_line>>

WurcsNext == WurcsLoads

WurcsSpec == WurcsInit /\ [][WurcsNext]_vars

\* ------------------------------------------------------------- properties
Range(f) == {f[x] : x \in DOMAIN f}

\* line i opens a document: a RES keyword that does not follow a repeat header
DocStarts(s) == {i \in 1..Len(s) : s[i].k = RES /\ (i = 1 \/ s[i - 1].k # "h")}
NumDocs(s) == Cardinality(DocStarts(s))
\* the document line i belongs to, and the first residue line of document d
DocOf(s, i) == Cardinality({j \in DocStarts(s) : j <= i})
FirstResidue(s, d) == MinOf({i \in 1..Len(s) : s[i].k = "b" /\ DocOf(s, i) = d})

\* the well-formed streams without repeats, and with them
PlainDocs == {PlainDoc(n, s) : n \in 1..MaxRes, s \in BOOLEAN}
PlainStreams == Concats(PlainDocs, MaxDocs) \ {<<>>}
WellFormedStreams == Concats(PlainDocs \cup {MiddleDoc(1, -1, -1)}, MaxDocs) \ {<<>>}

\* the i-th graph handed to the caller is the graph of the i-th document
GraphOfDocument(i) ==
  /\ nodes[got[i].root].line = FirstResidue(input, i)
  /\ \A k \in 1..Len(got[i].index) : DocOf(input, nodes[got[i].index[k]].line) = i

\* C1: one iteration over parse() on k concatenated well-formed documents
\* without repeats yields exactly k graphs, in document order; the i-th is
\* rooted at the first residue the i-th document declares and holds no node of
\* another document.
C1_OneGraphPerPlainDocument ==
  (mode = "iterate" /\ cpc = "done" /\ input \in PlainStreams) =>
    /\ result.kind = "list"
    /\ Len(got) = NumDocs(input)
    /\ \A i \in 1..Len(got) : GraphOfDocument(i)

C1_TwoDocumentsIterated ==
  /\ mode = "iterate" /\ cpc = "done" /\ input \in PlainStreams
  /\ NumDocs(input) >= 2 /\ Len(got) >= 2 /\ Len(got[2].index) >= 2

\* C2: loads(text) returns a single graph for a text of one document, and for
\* a text of k >= 2 documents a sequence of exactly k graphs whose i-th element
\* is the graph of the i-th document.
C2_LoadsOnePerDocument ==
  (mode = "loads" /\ cpc = "done" /\ input \in PlainStreams) =>
    /\ result.kind = (IF NumDocs(input) = 1 THEN "single" ELSE "list")
    /\ Len(got) = NumDocs(input)
    /\ \A i \in 1..Len(got) : GraphOfDocument(i)

C2_LoadsReturnsOneMore ==
  /\ mode = "loads" /\ cpc = "done" /\ input \in PlainStreams
  /\ result.kind = "list"
  /\ Len(got) = NumDocs(input) + 1

\* C3: on a stream of k concatenated documents, one with a REP section
\* followed by a further document included, the parser emits exactly one
\* graph per document.
C3_OneGraphPerDocument ==
  (mode = "iterate" /\ cpc = "done" /\ input \in WellFormedStreams) =>
    /\ result.kind = "list"
    /\ Len(got) = NumDocs(input)

C3_DocumentAfterRepeatSwallowed ==
  /\ mode = "iterate" /\ cpc = "done"
  /\ input = MiddleDoc(1, -1, -1) \o PlainDoc(1, FALSE)
  /\ Len(got) < 2

\* the copy count stated for the bounds m = (lo, hi)
InferredCount(m) == IF m[2] # -1 THEN m[2] ELSE IF m[1] # -1 THEN m[1] ELSE 1

\* the bonds the op_stack of record r formed between its clones
ChainBonds(r) ==
  {i \in DOMAIN bonds :
     /\ bonds[i].via = "chain" /\ bonds[i].parent.t = "node"
     /\ nodes[bonds[i].parent.r].of \in Range(records[r].original_graph.g)}

\* C4: expand_inner called without a copy count takes n = the upper bound if
\* it is known, else the lower bound if it is known, else 1; an expansion that
\* completes with n >= 1 leaves n clones chained by n - 1 bonds, so (2,4)
\* gives 4, (-1,3) gives 3, (2,-1) gives 2 and (-1,-1) gives 1.
C4_InferredCopyCount ==
  request = NoCount =>
    \A i \in DOMAIN log :
      LET r == log[i].a
          n == InferredCount(records[r].multitude)
      IN  /\ log[i].e = "expand_call" => log[i].b = n
          /\ (log[i].e = "expand" /\ n >= 1) =>
               /\ log[i].b = n
               /\ DOMAIN records[r].graph = 1..n
               /\ Cardinality(ChainBonds(r)) = n - 1

C4_FourChainedClones ==
  /\ request = NoCount
  /\ \E i \in DOMAIN log :
       /\ log[i].e = "expand" /\ log[i].b = 4
       /\ records[log[i].a].multitude = <<2, 4>>
       /\ Cardinality(ChainBonds(log[i].a)) = 3

\* C5: with both bounds known, a call of expand_inner whose requested or
\* inferred n lies outside [lo, hi] raises the range error (ValueError) before
\* any clone or bond of the record is made and leaves the capture graph as it
\* was; a ValueError comes from such a call only, so with a bound unknown no
\* range check happens.
C5_RangeChecked ==
  [][LET called == {i \in (Len(log) + 1)..Len(log') : log'[i].e = "expand_call"}
         outside(i) == LET m == records[log'[i].a].multitude
                       IN  /\ m[1] # -1 /\ m[2] # -1
                           /\ ~(m[1] <= log'[i].b /\ log'[i].b <= m[2])
     IN  /\ \A i \in called :
               outside(i) =>
                 /\ result'.kind = "raise" /\ result'.err = "ValueError"
                 /\ records'[log'[i].a] = records[log'[i].a]
                 /\ \A k \in (Len(nodes) + 1)..Len(nodes') :
                       nodes'[k].of \notin Range(records[log'[i].a].graph)
                 /\ \A k \in (Len(bonds) + 1)..Len(bonds') :
                       bonds'[k].parent.t = "node" =>
                         nodes'[bonds'[k].parent.r].of \notin Range(records[log'[i].a].graph)
         /\ (result'.err = "ValueError" /\ result.err # "ValueError") =>
               \E i \in called : outside(i)
    ]_vars

C5_RequestAboveUpperBound ==
  /\ mode = "expand" /\ cpc = "done"
  /\ request.given /\ records[1].multitude[1] # -1 /\ request.n > records[1].multitude[2]
  /\ result.err = "ValueError"
  /\ \A k \in DOMAIN nodes : nodes[k].of = 0

\* C6: a linkage line handled in state LIN either forms its bond at once, when
\* both endpoints are concrete nodes, and leaves the postponed list alone, or,
\* when an endpoint is a repeat placeholder, appends exactly one record to the
\* postponed list and forms no bond; and no bond ever has a repeat placeholder
\* as an endpoint.
C6_LinkageNowOrPostponed ==
  /\ [](\A i \in DOMAIN bonds : bonds[i].parent.t # "rep" /\ bonds[i].child.t # "rep")
  /\ [][(Reading /\ token.k = "l" /\ state = LIN /\ handle' = handle + 1) =>
          LET p == get_node(Cur, token.p)
              c == get_node(Cur, token.c)
          IN  /\ (p.t = "node" /\ c.t = "node") =>
                   /\ postponed' = postponed
                   /\ Len(bonds') = Len(bonds) + 1
                   /\ SubSeq(bonds', 1, Len(bonds)) = bonds
                   /\ bonds'[Len(bonds')].parent = p
                   /\ bonds'[Len(bonds')].child = c
                   /\ bonds'[Len(bonds')].line = handle + 1
              /\ ((p.t = "rep" /\ ~IsError(c)) \/ (c.t = "rep" /\ ~IsError(p))) =>
                   /\ bonds' = bonds
                   /\ Len(postponed') = Len(postponed) + 1
                   /\ SubSeq(postponed', 1, Len(postponed)) = postponed
                   /\ postponed'[Len(postponed')].line = handle + 1
       ]_vars

C6_OnePostponedOneFormed ==
  /\ state = LIN /\ iter = "running"
  /\ Len(postponed) >= 1
  /\ \E i \in DOMAIN bonds : bonds[i].via = "line" /\ bonds[i].gen = gen

\* the replay events of generator g, in the order they happened
Replays(g) == SelectSeq(log, LAMBDA e : e.e = "replay" /\ e.g = g)

\* C7: the postponed operations of a document are replayed in the order in
\* which their linkage lines were declared: the list is in line order, the
\* replay walks it from its first entry to its last, and the bonds the replay
\* forms appear in line order.
C7_ReplayInDeclarationOrder ==
  /\ \A i, j \in DOMAIN postponed : i < j => postponed[i].line < postponed[j].line
  /\ \A g \in 0..gen : \A i, j \in DOMAIN Replays(g) :
       i < j => Replays(g)[i].a < Replays(g)[j].a /\ Replays(g)[i].b < Replays(g)[j].b
  /\ iter \in {"yield628", "yield676"} =>
       /\ Len(Replays(gen)) = Len(postponed)
       /\ \A k \in DOMAIN postponed :
            Replays(gen)[k].a = k /\ Replays(gen)[k].b = postponed[k].line
  /\ \A i, j \in DOMAIN bonds :
       (i < j /\ bonds[i].via = "replay" /\ bonds[j].via = "replay" /\ bonds[i].gen = bonds[j].gen)
          => bonds[i].line < bonds[j].line

C7_TwoReplaysOnOnePlaceholder ==
  /\ iter = "yield676"
  /\ Len(postponed) = 2
  /\ postponed[1].rec = postponed[2].rec
  /\ \E i, j \in DOMAIN bonds :
       /\ i < j /\ bonds[i].via = "replay" /\ bonds[j].via = "replay"
       /\ bonds[i].line = postponed[1].line /\ bonds[j].line = postponed[2].line

\* the expansions of record r that generator g completed
ExpandsOf(r, g) == {j \in DOMAIN log : log[j].e = "expand" /\ log[j].a = r /\ log[j].g = g}

\* C8: within one run of parse() no registered repeat is handed to
\* expand_inner twice; every replay of a postponed operation comes after the
\* completed expansion of every registered repeat and after every expansion
\* call; and a finishing that yields has expanded every registered repeat
\* exactly once.
C8_ExpandOnceThenReplay ==
  /\ \A i, j \in DOMAIN log :
       (i < j /\ log[i].e = "expand_call" /\ log[j].e = "expand_call" /\ log[i].g = log[j].g)
          => log[i].a # log[j].a
  /\ \A i \in DOMAIN log : log[i].e = "replay" =>
       /\ \A r \in Range(repeats) : \E j \in ExpandsOf(r, log[i].g) : j < i
       /\ \A j \in DOMAIN log :
            (log[j].e \in {"expand_call", "expand"} /\ log[j].g = log[i].g) => j < i
  /\ iter \in {"yield628", "yield676"} =>
       \A r \in Range(repeats) : Cardinality(ExpandsOf(r, gen)) = 1

C8_TwoRepeatsExpandedThenReplayed ==
  /\ iter = "yield676" /\ mode = "iterate"
  /\ Cardinality(Range(repeats)) = 2
  /\ Len(Replays(gen)) = 2

\* C9: an ALT or UND keyword met in any state ends the parse with
\* GlycoCTSectionUnsupported, not with the plain GlycoCTError, and nothing is
\* yielded then or afterwards.
C9_UnsupportedSectionRaises ==
  [][/\ (Reading /\ token.k \in {ALT, UND} /\ handle' = handle + 1) =>
          /\ iter' = "finished" /\ cpc' = "done"
          /\ result' = [kind |-> "raise", err |-> "GlycoCTSectionUnsupported"]
          /\ out' = out /\ got' = got
     /\ result.err = "GlycoCTSectionUnsupported" =>
          (out' = out /\ got' = got /\ result' = result)
    ]_vars

C9_UnsupportedInsideRepeat ==
  /\ result.err = "GlycoCTSectionUnsupported"
  /\ in_repeat /\ state = RES /\ current_repeat # None
  /\ out = <<>>

\* C10: the LIN keyword moves the state to LIN only from state RES; met in any
\* other state it ends the parse with GlycoCTError, and nothing is yielded
\* then or afterwards.
C10_LinOnlyAfterRes ==
  [][/\ (Reading /\ token.k = LIN /\ handle' = handle + 1) =>
          IF state = RES
            THEN state' = LIN /\ iter' = "running" /\ result' = result
            ELSE /\ iter' = "finished" /\ cpc' = "done"
                 /\ result' = [kind |-> "raise", err |-> "GlycoCTError"]
                 /\ state' = state
                 /\ out' = out /\ got' = got
     /\ (result.err = "GlycoCTError" /\ iter = "finished") =>
          (out' = out /\ got' = got /\ result' = result)
    ]_vars

C10_LinRightAfterRepeatHeader ==
  /\ result.err = "GlycoCTError"
  /\ handle >= 2 /\ input[handle].k = LIN /\ input[handle - 1].k = "h"
  /\ state = START

\* C11: a content line is accepted only in the state of its section: residue,
\* substituent and repeat-stub lines in RES, linkage lines in LIN.  Such a
\* line met in another state, and a line no pattern matches, raises
\* GlycoCTError: the line changes nothing, the parse is over, and no graph is
\* yielded afterwards.
C11_ContentOnlyInMatchingState ==
  /\ [][(Reading /\ handle' = handle + 1) =>
          LET k == token.k
              matching == (k \in {"b", "s", "r"} /\ state = RES) \/ (k = "l" /\ state = LIN)
              stray == (k \in {"b", "s", "r"} /\ state # RES) \/ (k = "l" /\ state # LIN) \/ k = "?"
          IN  /\ stray =>
                   /\ result'.kind = "raise" /\ result'.err = "GlycoCTError"
                   /\ iter' = "finished"
                   /\ out' = out /\ got' = got
                   /\ nodes' = nodes /\ bonds' = bonds /\ postponed' = postponed
                   /\ graph' = graph /\ state' = state
              /\ matching => result'.err # "GlycoCTError"
       ]_vars
  /\ [][result.err = "GlycoCTError" => (out' = out /\ got' = got /\ iter' = "finished")]_vars

C11_ResidueLineInLinSection ==
  /\ result.kind = "raise" /\ result.err = "GlycoCTError"
  /\ handle >= 1 /\ input[handle].k = "b" /\ state = LIN
  /\ iter = "finished"

\* C12: in every graph yielded, the graphs built through repeat expansion
\* included, no two nodes have the same identifier and no node keeps a
\* decorated (copy, index) identifier: each holds one plain number.
C12_FinalIdentifiersUnique ==
  \A t \in DOMAIN out :
    /\ \A k, l \in DOMAIN out[t].index :
         k # l => /\ out[t].ids[k] # out[t].ids[l]
                  /\ nodes[out[t].index[k]].id # nodes[out[t].index[l]].id
    /\ \A k \in DOMAIN out[t].index :
         /\ Len(nodes[out[t].index[k]].id) = 1
         /\ nodes[out[t].index[k]].id[1] \in Nat

C12_ExpandedGraphRenumbered ==
  /\ iter = "yield676" /\ Len(out) = 1
  /\ Len(out[1].index) >= 4
  /\ \E k, l \in DOMAIN out[1].index :
       /\ k # l
       /\ nodes[out[1].index[k]].of # 0 /\ nodes[out[1].index[l]].of # 0
       /\ nodes[out[1].index[k]].of = nodes[out[1].index[l]].of

\* C13: the identifiers given at finishing come from a source that only
\* grows: of two graphs finished one after the other in one run, every
\* identifier of the later one is above every identifier of the earlier one,
\* so the two sets of identifiers are disjoint.
C13_IdentifiersGrowAcrossGraphs ==
  mode = "iterate" =>
    \A s, t \in DOMAIN out :
      s < t => \A k \in DOMAIN out[s].ids, l \in DOMAIN out[t].ids :
                 out[s].ids[k] < out[t].ids[l]

C13_TwoGraphsShareIdentifier ==
  /\ mode = "iterate" /\ cpc = "done" /\ result.kind = "list"
  /\ input = PlainDoc(1, FALSE) \o PlainDoc(1, FALSE)
  /\ Len(out) = 2
  /\ Range(out[1].index) \cap Range(out[2].index) = {}
  /\ Range(out[1].ids) \cap Range(out[2].ids) # {}

\* C14: whenever a document has been finished and emitted, at a new RES met
\* outside a repeat as well as at the end of the input, the per-document state
\* (the index-to-node mapping, the root, the postponed list) is reset to empty
\* when the generator moves on from that emission; and at the emission every
\* postponed operation has been replayed, so the reset comes after the replay.
C14_ResetAfterEveryEmission ==
  /\ [](iter \in {"yield628", "yield676"} => Len(Replays(gen)) = Len(postponed))
  /\ [][(iter \in {"yield628", "yield676"} /\ iter' # iter /\ gen' = gen) =>
          (graph' = EmptyDict /\ root' = None /\ postponed' = <<>>)]_vars

C14_StateKeptAfterLastGraph ==
  /\ mode = "iterate" /\ cpc = "done" /\ result.kind = "list"
  /\ input = MinimalDoc /\ Len(out) = 1
  /\ iter = "finished"
  /\ root # None /\ graph # EmptyDict

\* C15: once the generator of parse() has yielded its last graph at the end
\* of the stream, or has returned, every further call of next() signals
\* StopIteration and leaves the parser as it is: postprocess does not run
\* again, no graph is yielded and no generator is made.
C15_NextAfterExhaustionStops ==
  [][(iter \in {"yield676", "finished"} /\ cpc \in {"next", "first", "second", "list_next"}) =>
       /\ iter' = "finished"
       /\ stops' = stops + 1
       /\ gen' = gen /\ out' = out /\ got' = got /\ handle' = handle
       /\ log' = log /\ nodes' = nodes /\ bonds' = bonds
       /\ graph' = graph /\ root' = root /\ postponed' = postponed
       /\ result'.kind # "raise"
    ]_vars

C15_StoppedAgainAfterLastGraph ==
  /\ mode = "drain" /\ cpc = "done"
  /\ stops = MaxStops /\ stops >= 2
  /\ result.kind = "list" /\ Len(got) >= 1
  /\ iter = "finished" /\ gen = 1
  /\ Cardinality({i \in DOMAIN log : log[i].e = "postprocess"}) = Len(got)

\* C16: the input RES / 1b:o-dman-HEX-0:0 / LIN parses, without error, to
\* exactly one graph of one node, which is its root and has no bond, with the
\* anomer (o) and the ring start and end (0 and 0) read from the line; and so
\* does every document of a single residue line and an empty LIN section
\* (1b:b-dglc-HEX-1:5 gives anomer b, ring start 1, ring end 5).
C16_SingleResidueDocument ==
  (cpc = "done" /\ Len(input) = 3
     /\ input[1].k = RES /\ input[2].k = "b" /\ input[3].k = LIN) =>
    /\ result.kind = (IF mode = "loads" THEN "single" ELSE "list")
    /\ Len(got) = 1 /\ Len(out) = 1
    /\ got[1].index = <<got[1].root>>
    /\ bonds = <<>>
    /\ nodes[got[1].root].kind = "b" /\ nodes[got[1].root].line = 2
    /\ input = MinimalDoc =>
         /\ nodes[got[1].root].anomer = "uncyclized"
         /\ nodes[got[1].root].ring_start = [some |-> TRUE, v |-> 0]
         /\ nodes[got[1].root].ring_end = [some |-> TRUE, v |-> 0]
    /\ input = PlainDoc(1, FALSE) =>
         /\ nodes[got[1].root].anomer = "beta"
         /\ nodes[got[1].root].ring_start = [some |-> TRUE, v |-> 1]
         /\ nodes[got[1].root].ring_end = [some |-> TRUE, v |-> 5]

C16_MinimalDocumentParsed ==
  /\ mode = "iterate" /\ cpc = "done" /\ input = MinimalDoc
  /\ result.kind = "list" /\ Len(got) = 1
  /\ Len(nodes) = 1 /\ nodes[got[1].root].anomer = "uncyclized"

\* C17: a graph is handed to the consumer only after the finishing pass is
\* complete: at every yield each placeholder registered for the document has
\* been expanded into its clones, each postponed operation has formed its
\* bond between two residues, and the graph handed over holds no placeholder.
C17_YieldOnlyAfterFinishing ==
  iter \in {"yield628", "yield676"} =>
    LET tree == out[Len(out)]
    IN  /\ tree.gen = gen /\ tree.index # <<>>
        /\ \A r \in Range(repeats) :
             /\ records[r].original_graph.set
             /\ DOMAIN records[r].graph # {}
        /\ \A k \in DOMAIN postponed :
             \E i \in DOMAIN bonds :
               /\ bonds[i].via = "replay" /\ bonds[i].gen = gen
               /\ bonds[i].line = postponed[k].line
               /\ bonds[i].parent.t = "node" /\ bonds[i].child.t = "node"
        /\ \A k \in DOMAIN tree.index : nodes[tree.index[k]].kind \in {"b", "s"}

C17_YieldWithRepeatAndDeferredBonds ==
  /\ iter = "yield676" /\ input = MiddleDoc(1, 1, 2)
  /\ Cardinality(Range(repeats)) = 1 /\ Len(postponed) = 2
  /\ Cardinality({i \in DOMAIN bonds : bonds[i].via = "replay"}) = 2
  /\ Len(out[1].index) = 4

\* the calls of deferred-retrieval closures that found the index nowhere
AbsentReturns == {i \in DOMAIN log : log[i].e = "thunk" /\ log[i].b = 0}

\* C18: a deferred-retrieval closure whose index is neither in the document
\* mapping nor in any registered repeat does not return: the resolver raises
\* an unresolved-reference error.  So no call of such a closure returns an
\* absent value, and no bond is ever built on an absent endpoint.
C18_ThunkNeverReturnsAbsent ==
  /\ AbsentReturns = {}
  /\ \A i \in DOMAIN bonds : bonds[i].parent.t # "none" /\ bonds[i].child.t # "none"

C18_AbsentEndpointHandedToFormLink ==
  /\ mode = "iterate" /\ cpc = "done" /\ input = OrphanDoc(TRUE)
  /\ AbsentReturns # {}
  /\ result.kind = "raise" /\ result.err = "AttributeError"
  /\ \E i \in DOMAIN bonds : bonds[i].via = "replay" /\ bonds[i].child.t = "none"

\* C19: when the stream ends while the parser is inside a repeat section, the
\* parser clears the repeat flag, runs the finishing pass once and yields
\* exactly one graph for the open document, every registered repeat being
\* expanded with the copy count its header bounds give.
C19_EndInsideRepeatYieldsGraph ==
  [][(iter = "running" /\ handle = Len(input) /\ in_repeat) =>
       /\ in_repeat' = FALSE
       /\ Cardinality({i \in (Len(log) + 1)..Len(log') : log'[i].e = "postprocess"}) = 1
       /\ iter' = "yield676"
       /\ Len(out') = Len(out) + 1
       /\ \A r \in Range(repeats) :
            \E i \in (Len(log) + 1)..Len(log') :
              /\ log'[i].e = "expand_call" /\ log'[i].a = r
              /\ log'[i].b = InferredCount(records[r].multitude)
    ]_vars

C19_EndRightAfterRepeatHeader ==
  /\ mode = "iterate" /\ cpc = "done"
  /\ input = SubSeq(MiddleDoc(1, 1, 2), 1, 9) /\ input[9].k = "h"
  /\ handle = Len(input) /\ in_repeat = FALSE
  /\ result.kind = "raise" /\ result.err = "IndexError"
  /\ out = <<>>
  /\ Cardinality({i \in DOMAIN log : log[i].e = "postprocess"}) = 1

\* C20: within one document the provisional root is set by the first residue
\* line or repeat-stub line handled: to the residue (to the current repeat's
\* placeholder when the residue is declared inside a repeat section), or to
\* the placeholder the stub line registers; and once set it is not changed by
\* any later line until the per-document reset.
C20_RootSetOnceByFirstResidueOrStub ==
  [][/\ (Reading /\ state = RES /\ root = None /\ handle' = handle + 1
            /\ result'.kind # "raise") =>
          /\ token.k = "b" =>
               root' = (IF in_repeat THEN current_repeat ELSE NodeRef(Len(nodes) + 1))
          /\ token.k = "r" =>
               /\ root' = RepRef(Len(records) + 1)
               /\ graph'[token.ix] = root'
     /\ (root # None /\ ~(iter = "yield628" /\ iter' = "running")) => root' = root
    ]_vars

C20_StubFirstRootIsLaterResidue ==
  /\ iter = "yield676" /\ input = LeadingDoc(1, 2)
  /\ input[2].k = "r" /\ input[3].k = "b"
  /\ graph[1].t = "rep"
  /\ root.t = "node" /\ nodes[root.r].line = 3
  /\ out[1].root = root.r

\* C21: the REP keyword sets in_repeat; once set, the flag stays set at every
\* later line, whatever RES keywords follow, and is cleared only when the
\* whole input has been read; so no graph is yielded while lines are read
\* with the flag set.
C21_InRepeatUntilEndOfStream ==
  /\ [][(Reading /\ token.k = REP /\ handle' = handle + 1) => in_repeat']_vars
  /\ [][in_repeat => (in_repeat' \/ (iter = "running" /\ handle = Len(input)))]_vars
  /\ [][(in_repeat /\ Reading) => (out' = out /\ got' = got)]_vars

C21_ResKeywordInsideRepeat ==
  /\ input = MiddleDoc(1, -1, -1) \o PlainDoc(1, FALSE)
  /\ iter = "running" /\ handle = Len(MiddleDoc(1, -1, -1)) + 1
  /\ input[handle].k = RES /\ state = RES
  /\ in_repeat /\ root # None /\ out = <<>>

\* the copy count a direct call of expand_inner works with
CalledCount == IF request.given THEN request.n ELSE InferredCount(records[1].multitude)
\* the nodes that are copies of capture nodes, and those of clone i
CloneNodes == {m \in DOMAIN nodes : nodes[m].of # 0}
NodesOfClone(i) == {m \in CloneNodes : Len(nodes[m].id) = 2 /\ nodes[m].id[1] = i}

\* C22: after expand_inner with copy count n the placeholder holds exactly n
\* clones keyed 1..n, and every node of clone i carries the identifier
\* (i, source-local index): each clone holds one copy of every capture node,
\* and no two nodes of the clones share an identifier.
C22_ExactlyNDecoratedClones ==
  (mode = "expand" /\ cpc = "done" /\ result.kind = "expanded") =>
    LET n == CalledCount
        unit == Range(records[1].original_graph.g)
    IN  /\ DOMAIN records[1].graph = 1..n
        /\ CloneNodes = UNION {NodesOfClone(i) : i \in 1..n}
        /\ \A i \in 1..n :
             /\ records[1].graph[i] \in NodesOfClone(i)
             /\ \A s \in unit : \E m \in NodesOfClone(i) :
                  nodes[m].of = s /\ nodes[m].id = <<i>> \o nodes[s].id
             /\ Cardinality(NodesOfClone(i)) = Cardinality(unit)
        /\ \A m1, m2 \in CloneNodes : m1 # m2 => nodes[m1].id # nodes[m2].id

C22_ZeroCopiesLeaveOneClone ==
  /\ mode = "expand" /\ cpc = "done" /\ result.kind = "expanded"
  /\ request = Count(0) /\ records[1].multitude = <<0, 2>>
  /\ DOMAIN records[1].graph = {1}
  /\ NodesOfClone(1) # {}

\* the positions a position text declares, and those a bond was built on (a
\* bond built on raw text has one candidate per character)
Declared(txt) == Range(PosList(txt).list)
CharPosition(ch) == IF IsDigit(ch) THEN DigitVal(ch) ELSE -99
Carried(pos) ==
  IF pos.list # <<>> THEN Range(pos.list) ELSE {CharPosition(pos.str[i]) : i \in DOMAIN pos.str}
\* the bonds between nodes of different clones
InterCloneBonds ==
  {i \in DOMAIN bonds :
     /\ bonds[i].parent.t = "node" /\ bonds[i].child.t = "node"
     /\ bonds[i].parent.r \in CloneNodes /\ bonds[i].child.r \in CloneNodes
     /\ nodes[bonds[i].parent.r].copy # nodes[bonds[i].child.r].copy}

\* C23: after expand_inner with copy count n >= 1 there is for every i in
\* 1..n-1 exactly one bond from the node of clone i at the internal linkage's
\* parent residue index to the node of clone i+1 at its child residue index,
\* carrying the positions and atom losses the header declares; these n-1
\* bonds are the only bonds between clones.
C23_AdjacentClonesChained ==
  (mode = "expand" /\ cpc = "done" /\ result.kind = "expanded" /\ CalledCount >= 1) =>
    LET n == CalledCount
        link == records[1].internal_linkage
        joins(i) == {b \in InterCloneBonds :
                       /\ nodes[bonds[b].parent.r].id = <<i, link.p>>
                       /\ nodes[bonds[b].child.r].id = <<i + 1, link.c>>}
    IN  /\ Cardinality(InterCloneBonds) = n - 1
        /\ \A i \in 1..(n - 1) :
             /\ Cardinality(joins(i)) = 1
             /\ \A b \in joins(i) :
                  /\ bonds[b].ploss = LossOf(link.pa) /\ bonds[b].closs = LossOf(link.ca)
                  /\ Carried(bonds[b].pp) = Declared(link.pp)
                  /\ Carried(bonds[b].cp) = Declared(link.cp)

C23_ChainBondOnTextOfUnknownPosition ==
  /\ mode = "expand" /\ cpc = "done" /\ result.kind = "expanded" /\ CalledCount = 2
  /\ records[1].internal_linkage.pp = PUnknown
  /\ Cardinality(InterCloneBonds) = 1
  /\ \E b \in InterCloneBonds :
       /\ nodes[bonds[b].parent.r].copy = 1 /\ nodes[bonds[b].child.r].copy = 2
       /\ bonds[b].pp = PosText(PUnknown)

\* node m is the copy, in clone i of record r, of the unit residue declared
\* under the source index ix
IsCopyOf(m, r, i, ix) ==
  /\ ix \in DOMAIN records[r].original_graph.g
  /\ nodes[m].of = records[r].original_graph.g[ix]
  /\ nodes[m].copy = i
LastClone(r) == Cardinality(DOMAIN records[r].graph)

\* C24: at the replay of a postponed linkage, a link whose child was the
\* placeholder ends at the node of clone 1 at the repeat linkage's child
\* residue index; a link whose parent was the placeholder starts at the node
\* of the last clone at the repeat linkage's parent residue index; and with
\* placeholders at both ends the bond goes from the last clone of the parent
\* repeat to clone 1 of the child repeat.
C24_ReplayAttachesFirstAndLastClone ==
  iter \in {"yield628", "yield676"} =>
    \A k \in DOMAIN postponed :
      LET op == postponed[k]
          r == op.rec
          other == graph[op.f.id]
      IN  \A b \in DOMAIN bonds :
            (bonds[b].via = "replay" /\ bonds[b].gen = gen /\ bonds[b].line = op.line) =>
              IF op.handler = "handle_incoming_link"
                THEN /\ IsCopyOf(bonds[b].child.r, r, 1, records[r].external_linkage.c)
                     /\ bonds[b].parent = other
                ELSE /\ IsCopyOf(bonds[b].parent.r, r, LastClone(r), records[r].external_linkage.p)
                     /\ IF other.t = "rep"
                          THEN IsCopyOf(bonds[b].child.r, other.r, 1,
                                        records[other.r].external_linkage.c)
                          ELSE bonds[b].child = other

C24_LastCloneBondedToFirstClone ==
  /\ iter = "yield676" /\ input = TwinDoc(2, 2)
  /\ \E k \in DOMAIN postponed, b \in DOMAIN bonds :
       /\ postponed[k].handler = "handle_outgoing_link"
       /\ graph[postponed[k].f.id].t = "rep"
       /\ bonds[b].via = "replay" /\ bonds[b].line = postponed[k].line
       /\ nodes[bonds[b].parent.r].copy = 2 /\ nodes[bonds[b].child.r].copy = 1

\* a linkage text declares more than one candidate position on an endpoint
SeveralCandidates(pp, cp) == Len(PosList(pp).list) > 1 \/ Len(PosList(cp).list) > 1
\* bond b is as its declaration (pp, cp) asks: ambiguous exactly when an
\* endpoint has several candidates, else plain at the declared positions
AsDeclared(b, pp, cp) ==
  /\ bonds[b].amb <=> SeveralCandidates(pp, cp)
  /\ ~SeveralCandidates(pp, cp) =>
       (Carried(bonds[b].pp) = Declared(pp) /\ Carried(bonds[b].cp) = Declared(cp))

\* C25: a bond is made as an ambiguous bond if and only if its linkage
\* declares more than one |-separated candidate position on an endpoint; a
\* linkage with one position on each side, a position of several characters
\* such as -1 included, gives a plain bond at that position.  This holds for
\* the bonds of LIN linkage lines, formed at once or replayed, and for the
\* bonds that chain the clones by the internal linkage of a repeat header.
C25_AmbiguousIffSeveralCandidates ==
  /\ \A b \in DOMAIN bonds :
       (bonds[b].via \in {"line", "replay"} /\ bonds[b].line >= 1) =>
         AsDeclared(b, input[bonds[b].line].pp, input[bonds[b].line].cp)
  /\ \A r \in DOMAIN records : \A b \in ChainBonds(r) :
       AsDeclared(b, records[r].internal_linkage.pp, records[r].internal_linkage.cp)

C25_UnknownHeaderPositionMadeAmbiguous ==
  /\ mode = "expand" /\ cpc = "done" /\ result.kind = "expanded"
  /\ records[1].internal_linkage.pp = PUnknown /\ records[1].internal_linkage.cp = P1
  /\ \E b \in ChainBonds(1) : bonds[b].amb /\ PosLen(bonds[b].pp) = 2

\* C26: a repeat header line met while in_repeat is not set raises
\* GlycoCTError and changes neither the current repeat nor any registered
\* placeholder; met inside a repeat section it makes the placeholder it names
\* the current repeat, stores its linkage and its multiplicity in it, and sets
\* the state to START, where content lines are rejected and which only a RES
\* keyword leaves for a content state.
C26_RepeatHeaderOnlyInsideRepeat ==
  /\ [][(Reading /\ token.k = "h" /\ handle' = handle + 1) =>
          /\ ~in_repeat =>
               /\ result'.kind = "raise" /\ result'.err = "GlycoCTError"
               /\ iter' = "finished" /\ out' = out
               /\ current_repeat' = current_repeat
               /\ records' = records /\ repeats' = repeats /\ state' = state
          /\ (in_repeat /\ token.rep \in DOMAIN repeats) =>
               LET r == repeats[token.rep]
                   stored == records'[r].internal_linkage
               IN  /\ result'.kind # "raise"
                   /\ current_repeat' = RepRef(r)
                   /\ stored.set /\ stored.p = token.p /\ stored.c = token.c
                   /\ stored.pp = token.pp /\ stored.cp = token.cp
                   /\ stored.pa = token.pa /\ stored.ca = token.ca
                   /\ records'[r].external_linkage = stored
                   /\ records'[r].multitude = <<token.lo, token.hi>>
                   /\ \A q \in DOMAIN records : q # r => records'[q] = records[q]
                   /\ repeats' = repeats
                   /\ state' = START
       ]_vars
  /\ [][(Reading /\ state = START /\ token.k \in {"b", "s", "r", "l"} /\ handle' = handle + 1) =>
          (result'.kind = "raise" /\ result'.err = "GlycoCTError")]_vars
  /\ [][(Reading /\ state = START /\ state' \in {RES, LIN}) => token.k = RES]_vars

C26_HeaderOutsideRepeat ==
  /\ result.kind = "raise" /\ result.err = "GlycoCTError"
  /\ handle >= 1 /\ input[handle].k = "h"
  /\ ~in_repeat /\ repeats # EmptyDict /\ current_repeat = None
  /\ \A r \in DOMAIN records : ~records[r].internal_linkage.set

\* C27: a new iteration started on a parser that has already yielded a
\* document never yields that document again and never repeats its repeat
\* expansions or the replay of its postponed operations: graphs yielded by
\* different generators share no node, no record is handed to expand_inner by
\* two generators, and no linkage line is replayed by two generators.
C27_NewIterationRepeatsNothing ==
  /\ \A s, t \in DOMAIN out :
       out[s].gen # out[t].gen => Range(out[s].index) \cap Range(out[t].index) = {}
  /\ \A i, j \in DOMAIN log :
       (log[i].g # log[j].g /\ log[i].e = log[j].e /\ log[i].e \in {"expand_call", "replay"})
          => (log[i].a # log[j].a /\ (log[i].e = "replay" => log[i].b # log[j].b))

C27_ListAfterExhaustionYieldsLastAgain ==
  /\ mode = "loads" /\ cpc = "done" /\ result.kind = "list"
  /\ input = PlainDoc(1, FALSE) \o PlainDoc(MaxRes, TRUE)
  /\ gen = 2 /\ Len(out) = 3
  /\ out[2].gen = 1 /\ out[3].gen = 2
  /\ out[3].root = out[2].root /\ out[3].index = out[2].index
  /\ Cardinality({i \in DOMAIN log : log[i].e = "postprocess"}) = 3

\* ------------------------------------------------------------------- C28
\* C28: for every EnzymeGraph whose nodes are strings, whatever the order
\* in which its edges were inserted and whatever its seeds, the graph that
\* EnzymeGraph.loads makes of the text of dumps() is equal to it (the same
\* parents, under each the same children, on each edge the same enzymes)
\* and has the same seed set.
C28_LoadsOfDumpsIsEqual ==
  returned.op = "loads" =>
    /\ eq(twin, eg) /\ eq(eg, twin)
    /\ keys(twin.graph) = keys(eg.graph)
    /\ \A p \in keys(eg.graph) :
         /\ keys(get(twin.graph, p)) = keys(get(eg.graph, p))
         /\ \A c \in keys(get(eg.graph, p)) :
              get(get(twin.graph, p), c) = get(get(eg.graph, p), c)
    /\ twin.seeds = eg.seeds

\* a graph whose parents were inserted out of order, whose seeds are not
\* its parentless nodes, and one of whose parents has no child, read back
C28_ReadBackOutOfOrder ==
  /\ returned.op = "loads"
  /\ Len(eg.graph) = 3
  /\ twin.graph # eg.graph
  /\ eg.seeds # parentless(eg.graph)
  /\ \E i \in DOMAIN eg.graph : DOMAIN eg.graph[i][2] = {}
  /\ eq(twin, eg)

\* ------------------------------------------------------------------- C29
\* the edges of G that carry the enzyme
Carrying(G, enzyme) == {<<ed[1], ed[2]>> : ed \in {x \in edges(G) : x[3] = enzyme}}

\* C29: remove_enzyme(e) returns on every graph, its loop over the
\* parentless nodes taking at most one turn per parent key; afterwards e
\* labels no remaining edge, no remaining edge has an empty enzyme set,
\* every node that remains as a parent key is a seed or a child of a
\* remaining parent key, and the returned list holds, once each, exactly
\* the (parent, child) pairs whose edge carried e before the call.
C29_RemoveEnzymeLeavesSoundGraph ==
  [][returned'.op = "remove_enzyme" =>
       /\ returned'.err = "none"
       /\ returned'.rounds <= Cardinality(keys(eg.graph))
       /\ returned'.arg \notin enzymes(eg')
       /\ \A i \in DOMAIN eg'.graph : \A j \in DOMAIN eg'.graph[i][2] :
            eg'.graph[i][2][j][2] # {}
       /\ \A p \in keys(eg'.graph) :
            \/ p \in eg'.seeds
            \/ \E q \in keys(eg'.graph) : p \in keys(get(eg'.graph, q))
       /\ {returned'.value[k] : k \in DOMAIN returned'.value} = Carrying(eg, returned'.arg)
       /\ Len(returned'.value) = Cardinality(Carrying(eg, returned'.arg))]_vars

\* a call that removed an edge and then needed two turns of the loop to
\* clear the parents left without a parent
C29_TwoTurnsOfPruning ==
  /\ returned.op = "remove_enzyme"
  /\ returned.rounds = 2
  /\ Len(returned.value) >= 1
  /\ returned.arg \notin enzymes(eg)

\* ------------------------------------------------------------------- C30
Queries ==
  {"nodes", "edges", "node_count", "edge_count", "enzymes", "parents", "parentless",
   "children"}

\* C30: nodes, edges, node_count, edge_count, enzymes, parents, children
\* and parentless leave the mapping and the seed set of the graph they are
\* called on (and of the other graph) as they were, for every argument,
\* also on a graph made by clone() and for a target that has no children;
\* hence a clone is equal to its original after any sequence of such calls
\* on either of the two.
C30_QueriesChangeNothing ==
  /\ [][returned'.op \in Queries => (eg' = eg /\ twin' = twin)]_vars
  /\ [](twin.default_factory = "_enzyme_graph_inner" => (eq(twin, eg) /\ eq(eg, twin)))

\* children(target) on a clone, for a target that is a child but no
\* parent: the clone now holds the target as a parent key, the original
\* does not, and the two are no longer equal
C30_ChildrenWroteTargetIntoClone ==
  /\ returned.op = "children" /\ returned.on = "twin" /\ returned.err = "none"
  /\ twin.default_factory = "_enzyme_graph_inner"
  /\ returned.arg \in keys(twin.graph)
  /\ DOMAIN get(twin.graph, returned.arg) = {}
  /\ returned.arg \notin keys(eg.graph)
  /\ returned.arg \in nodes_of(eg)
  /\ ~eq(twin, eg)

\* ------------------------------------------------------------------- C31
\* the link entries of the connectivity section of the line
LinkEntries == split(wurcs_line.connectivity, "_", <<>>)
Braced == Has(wurcs_line.connectivity, "{") \/ Has(wurcs_line.connectivity, "}")
\* a braced section of more than one link entry, all of them the same
SelfReferential ==
  /\ Braced
  /\ Len(LinkEntries) > 1
  /\ \A i \in DOMAIN LinkEntries : LinkEntries[i] = LinkEntries[1]
\* the nodes the node section declares, one number each
DeclaredCount == (Len(wurcs_line.nodes) + 1) \div 2
DeclaredOfType(t) ==
  Cardinality({i \in 1..DeclaredCount : wurcs_line.nodes[2 * i - 1] = TypeText(t)[1]})
\* every glyph a link entry names stands for a declared node
NamesDeclaredNodes(link) ==
  \A i \in DOMAIN link :
    link[i] \in {"a", "b", "c", "d", "e"} =>
      \E k \in 0..(DeclaredCount - 1) : base52(k) = link[i]
Bridging(link) == Has(link, "*")

\* an unordered composition that counts every declared node once; no bond
CompositionOfDeclared ==
  /\ wurcs_result.kind = "composition"
  /\ \A t \in NodeTypes : wurcs_result.counts[t] = DeclaredOfType(t)
  /\ wurcs_result.bonds = <<>>
\* WURCSFeatureNotSupported, and neither a graph nor a composition
NotSupported ==
  wurcs_result.kind = "raise" /\ wurcs_result.err = "WURCSFeatureNotSupported"
GraphRootedAtNodeZero == wurcs_result.kind = "glycan" /\ wurcs_result.root = 0

\* C31, as stated: parse returns a composition counting every declared
\* node once, with no bond made, when the connectivity section is empty
\* or a braced set of more than one identical link entries; a braced
\* section of any other shape fails with WURCSFeatureNotSupported; in all
\* remaining cases a structured graph rooted at node 0 is returned.
C31_GraphInAllRemainingCases ==
  wurcs_pc = "done" =>
    /\ (wurcs_line.connectivity = <<>> \/ SelfReferential) => CompositionOfDeclared
    /\ (Braced /\ ~SelfReferential) => NotSupported
    /\ (wurcs_line.connectivity # <<>> /\ ~Braced) => GraphRootedAtNodeZero

\* C31, amended: the first two cases as stated; of the sections without
\* braces, one whose link entries name declared nodes and hold no bridge
\* ("*") gives a graph rooted at node 0 with one bond per link entry, and
\* one whose first link entry holds a bridge fails with
\* WURCSFeatureNotSupported; no section with a bridge gives a graph.
C31_GraphUnlessBridged ==
  wurcs_pc = "done" =>
    /\ (wurcs_line.connectivity = <<>> \/ SelfReferential) => CompositionOfDeclared
    /\ (Braced /\ ~SelfReferential) => NotSupported
    /\ (/\ wurcs_line.connectivity # <<>> /\ ~Braced
        /\ \A i \in DOMAIN LinkEntries :
             NamesDeclaredNodes(LinkEntries[i]) /\ ~Bridging(LinkEntries[i]))
         => (GraphRootedAtNodeZero /\ Len(wurcs_result.bonds) = Len(LinkEntries))
    /\ (/\ ~Braced
        /\ \E i \in DOMAIN LinkEntries :
             /\ Bridging(LinkEntries[i])
             /\ \A j \in 1..i : NamesDeclaredNodes(LinkEntries[j])
             /\ \A j \in 1..(i - 1) : ~Bridging(LinkEntries[j]))
         => (NotSupported /\ \E i \in DOMAIN LinkEntries :
               Bridging(LinkEntries[i]) /\ Len(wurcs_result.bonds) = i - 1)
    /\ (~Braced /\ \E i \in DOMAIN LinkEntries : Bridging(LinkEntries[i]))
         => wurcs_result.kind = "raise"

\* three nodes, two of one type, under a braced linkage set written
\* twice: a composition of two and one, no bond
C31_CompositionOfThreeNodes ==
  /\ wurcs_pc = "done"
  /\ SelfReferential
  /\ DeclaredCount = 3
  /\ wurcs_result.kind = "composition"
  /\ wurcs_result.counts[1] = 2 /\ wurcs_result.counts[2] = 1
  /\ wurcs_result.bonds = <<>>

====
